---- MODULE Spec2Model ----
(***************************************************************************)
(* Model of the evaluation core of ftc_eval.                               *)
(*                                                                         *)
(*  - the consensus engine (src/src/ai_evaluator.py): calculate_consensus  *)
(*    and its helpers _calculate_agreement_level, _identify_outliers and   *)
(*    _generate_actionable_insights;                                       *)
(*  - the response normalizer (src/src/ai_evaluator.py):                   *)
(*    _parse_evaluation_response and _calculate_response_confidence;       *)
(*  - the orchestrator loop evaluate_conversation_sync;                    *)
(*  - the job pool of src/src/evaluation_pipeline.py and the exit code of  *)
(*    src/evaluate.py.                                                     *)
(*                                                                         *)
(* Python numbers are modelled as exact rationals [n, d] in lowest terms   *)
(* (an int 7 and a float 7.0 are the same number, as 7 == 7.0 in Python).  *)
(* A dict is modelled as a sequence in insertion order.  A text is a       *)
(* sequence of symbols: braces, separators, string literals, numbers and   *)
(* bare words.                                                             *)
(***************************************************************************)
EXTENDS Integers, Sequences, FiniteSets, TLC

VARIABLES
    \* calculate_consensus
    evaluation_results,  \* its argument: records in dict order
    outcome,             \* "pending" | "returned" | "IndexError"
    analysis,            \* the ConsensusAnalysis returned (EmptyAnalysis until then)
    \* _parse_evaluation_response
    document,            \* what the judge meant to answer (the response renders it)
    response_text,       \* the raw response text handed to the parser
    evaluator_id,        \* the evaluator identifier handed to the parser
    response_metadata,   \* the metadata handed to the parser
    clock,               \* the wall clock read by datetime.now()
    parse_runs,          \* what each run of the parser returned and printed
    \* evaluate_conversation_sync
    sync_providers,      \* the list of judges of the call
    sync_position,       \* entries of the list the loop is through with
    sync_results,        \* the results dict: judge to record
    judge_calls,         \* the calls of the judge-call interface, in order
    sync_state,          \* "running" | "returned"
    \* execute_evaluation and main
    batch,               \* the arguments: characters, scenarios, max_workers, session_id
    pipeline_pc,         \* where execute_evaluation and main are
    job_phase,           \* the future of each test case: "queued" | "running" | "ended"
    job_choice,          \* what the collaborators of each ended job did
    job_result,          \* what each ended job returned
    finished_early,      \* jobs that ended before as_completed took over
    finished_queue,      \* jobs that ended after that, in the order they ended
    completion_order,    \* every ended job, in the order the futures were done
    collected_order,     \* the jobs in the order the collecting loop took them
    pool_results,        \* the results list of the collector
    callbacks,           \* the progress callbacks made: completed_count, total, result
    storage_calls,       \* the calls on results_manager, in order
    exit_code,           \* of the evaluate.py process; -1 while it runs
    \* a Conversation, and ConversationGenerator.generate building one
    max_history,         \* Conversation.max_history
    messages,            \* Conversation.messages: (role, content, timestamp)
    added_messages,      \* every message add_message was called with, in order
    completion_status,   \* evaluation_metadata["completion_status"]
    generator_pc,        \* where generate is; "direct": a caller adds the messages
    target_exchanges,    \* scenario_data["target_exchanges"]
    exchanges_completed, \* the counter of generate
    exchange_num,        \* the loop variable of generate
    \* a SessionManager
    sessions,            \* sessions_index["sessions"]: identifier to metadata
    session_clock,       \* datetime.now(), in seconds
    last_call            \* the last call on the manager, with the index before it

consensus_vars == <<evaluation_results, outcome, analysis>>

parser_vars ==
    <<document, response_text, evaluator_id, response_metadata, clock, parse_runs>>

orchestrator_vars ==
    <<sync_providers, sync_position, sync_results, judge_calls, sync_state>>

pipeline_vars ==
    <<batch, pipeline_pc, job_phase, job_choice, job_result, finished_early,
      finished_queue, completion_order, collected_order, pool_results, callbacks,
      storage_calls, exit_code>>

conversation_vars ==
    <<max_history, messages, added_messages, completion_status, generator_pc,
      target_exchanges, exchanges_completed, exchange_num>>

session_vars == <<sessions, session_clock, last_call>>

vars ==
    <<consensus_vars, parser_vars, orchestrator_vars, pipeline_vars,
      conversation_vars, session_vars>>

\* the parts of the state a specification does not use stay at these values
ConsensusIdle ==
    /\ evaluation_results = <<>>
    /\ outcome = "idle"
    /\ analysis = <<>>

ParserIdle ==
    /\ document = <<>>
    /\ response_text = <<>>
    /\ evaluator_id = ""
    /\ response_metadata = <<>>
    /\ clock = 0
    /\ parse_runs = <<>>

OrchestratorIdle ==
    /\ sync_providers = <<>>
    /\ sync_position = 0
    /\ sync_results = <<>>
    /\ judge_calls = <<>>
    /\ sync_state = "idle"

PipelineIdle ==
    /\ batch = <<>>
    /\ pipeline_pc = "idle"
    /\ job_phase = <<>>
    /\ job_choice = <<>>
    /\ job_result = <<>>
    /\ finished_early = {}
    /\ finished_queue = <<>>
    /\ completion_order = <<>>
    /\ collected_order = <<>>
    /\ pool_results = <<>>
    /\ callbacks = <<>>
    /\ storage_calls = <<>>
    /\ exit_code = -1

ConversationIdle ==
    /\ max_history = 0
    /\ messages = <<>>
    /\ added_messages = <<>>
    /\ completion_status = ""
    /\ generator_pc = "idle"
    /\ target_exchanges = 0
    /\ exchanges_completed = 0
    /\ exchange_num = 0

SessionIdle ==
    /\ sessions = <<>>
    /\ session_clock = 0
    /\ last_call = <<>>

----------------------------------------------------------------------------
(* Bounds of the inputs *)

\* a record's scores take one value on the first k criteria and another on
\* the rest, k in 0..MaxPrefix
MaxPrefix == 3

\* score values used: below 6, the band 6..8, above 8; gaps of 1, 2, 3 and more
ScoreValues == {3, 6, 7, 9}

\* confidence values used, in tenths (the parser yields 0.5 .. 1.0)
ConfidenceTenths == {5, 8}

----------------------------------------------------------------------------
(* Exact rational arithmetic *)

Abs(x) == IF x < 0 THEN -x ELSE x

RECURSIVE Gcd(_, _)
Gcd(a, b) == IF b = 0 THEN a ELSE Gcd(b, a % b)

\* the rational n/d (d > 0) in lowest terms
Rat(n, d) ==
    LET g == Gcd(Abs(n), d)
    IN  [n |-> n \div g, d |-> d \div g]

RatAdd(a, b) == Rat(a.n * b.d + b.n * a.d, a.d * b.d)
RatDivInt(a, k) == Rat(a.n, a.d * k)
RatLT(a, b) == a.n * b.d < b.n * a.d
RatAbsDiff(a, b) == Rat(Abs(a.n * b.d - b.n * a.d), a.d * b.d)
RatMax(a, b) == IF RatLT(a, b) THEN b ELSE a

Zero == Rat(0, 1)
One == Rat(1, 1)

RECURSIVE RatSum(_)
RatSum(s) == IF s = <<>> THEN Zero ELSE RatAdd(s[1], RatSum(Tail(s)))

RECURSIVE IntSum(_)
IntSum(s) == IF s = <<>> THEN 0 ELSE s[1] + IntSum(Tail(s))

----------------------------------------------------------------------------
(* AIEvaluator.__init__ *)

evaluation_criteria ==
    << "character_immersion", "story_progression", "interactive_agency",
       "emotional_journey", "fantasy_fulfillment", "character_authenticity" >>

Criteria == { evaluation_criteria[i] : i \in 1..Len(evaluation_criteria) }

agreement_threshold == 2

\* AIHandler.get_evaluation_providers: the judges, in the order it lists them
EvaluationProviders == << "deepseek_reasoner", "claude_thinking", "o3" >>

----------------------------------------------------------------------------
(* EvaluationResult, as _parse_evaluation_response builds it *)

\* overall_score = sum(scores.values()) / len(scores)
EvaluationResult(evaluator, scores, confidence) ==
    [ evaluator     |-> evaluator,
      scores        |-> scores,
      overall_score |-> Rat(IntSum([i \in 1..Len(evaluation_criteria) |->
                                       scores[evaluation_criteria[i]]]),
                            Len(evaluation_criteria)),
      confidence    |-> confidence ]

----------------------------------------------------------------------------
(* statistics.median *)

\* variant: the upper middle value also for a list of even length
MedianUpperOnly(scores) ==
    LET data == SortSeq(scores, <)
        n    == Len(data)
    IN  Rat(data[(n \div 2) + 1], 1)

median(scores) ==
    LET data == SortSeq(scores, <)
        n    == Len(data)
    IN  IF n % 2 = 1
        THEN Rat(data[(n \div 2) + 1], 1)
        ELSE Rat(data[n \div 2] + data[(n \div 2) + 1], 2)

SeqMax(s) == CHOOSE x \in { s[i] : i \in 1..Len(s) } :
                 \A j \in 1..Len(s) : s[j] <= x
SeqMin(s) == CHOOSE x \in { s[i] : i \in 1..Len(s) } :
                 \A j \in 1..Len(s) : s[j] >= x

\* f"{x:.1f}": the decimal printed, as a number of tenths (round half to even)
Format1f(r) ==
    LET q   == (10 * r.n) \div r.d
        rem == (10 * r.n) % r.d
    IN  IF 2 * rem > r.d \/ (2 * rem = r.d /\ q % 2 = 1) THEN q + 1 ELSE q

\* [result.scores[criterion] for result in evaluation_results.values()]
ScoresFor(results, criterion) ==
    [ i \in 1..Len(results) |-> results[i].scores[criterion] ]

----------------------------------------------------------------------------
(* AIEvaluator._calculate_agreement_level *)

\* variant: without the cut-off at 0
PairAgreementUnclamped(x, y) ==
    Rat(agreement_threshold - Abs(x - y), agreement_threshold)

\* variant: the relative gap itself, not its complement
PairAgreementOfGap(x, y) ==
    RatMax(Zero, Rat(Abs(x - y), agreement_threshold))

\* max(0, 1 - (diff / self.agreement_threshold))
PairAgreement(x, y) ==
    LET diff == Abs(x - y)
    IN  RatMax(Zero, Rat(agreement_threshold - diff, agreement_threshold))

\* the list `agreements` of one criterion: pairs i < j in loop order
RECURSIVE PairAgreementsFrom(_, _, _)
PairAgreementsFrom(scores, i, j) ==
    IF i > Len(scores) THEN <<>>
    ELSE IF j > Len(scores) THEN PairAgreementsFrom(scores, i + 1, i + 2)
    ELSE <<PairAgreement(scores[i], scores[j])>>
             \o PairAgreementsFrom(scores, i, j + 1)

RECURSIVE TotalAgreementFrom(_, _)
TotalAgreementFrom(results, k) ==
    IF k > Len(evaluation_criteria) THEN Zero
    ELSE LET agreements ==
                 PairAgreementsFrom(ScoresFor(results, evaluation_criteria[k]), 1, 2)
             criterion_agreement ==
                 IF agreements # <<>>
                 THEN RatDivInt(RatSum(agreements), Len(agreements))
                 ELSE Zero
         IN  RatAdd(criterion_agreement, TotalAgreementFrom(results, k + 1))

AgreementLevel(results) ==
    LET criteria_count == Len(evaluation_criteria)
    IN  IF criteria_count > 0
        THEN RatDivInt(TotalAgreementFrom(results, 1), criteria_count)
        ELSE Zero

----------------------------------------------------------------------------
(* AIEvaluator._identify_outliers *)

\* variant: >= instead of >
DeviationReaches(evaluator_score, consensus_score) ==
    ~RatLT(RatAbsDiff(Rat(evaluator_score, 1), consensus_score),
           Rat(agreement_threshold, 1))

\* abs(evaluator_score - consensus_score) > self.agreement_threshold
DeviationExceeds(evaluator_score, consensus_score) ==
    RatLT(Rat(agreement_threshold, 1),
          RatAbsDiff(Rat(evaluator_score, 1), consensus_score))

\* outlier_count of one evaluator
OutlierCount(result, consensus_scores) ==
    Cardinality({ c \in Criteria :
        DeviationExceeds(result.scores[c], consensus_scores[c]) })

\* variant: >= instead of >
IsOutlierCountAtLeastHalf(outlier_count) ==
    2 * outlier_count >= Len(evaluation_criteria)

\* outlier_count > len(self.evaluation_criteria) / 2
IsOutlierCount(outlier_count) ==
    2 * outlier_count > Len(evaluation_criteria)

RECURSIVE IdentifyOutliersFrom(_, _, _)
IdentifyOutliersFrom(results, consensus_scores, i) ==
    IF i > Len(results) THEN <<>>
    ELSE (IF IsOutlierCount(OutlierCount(results[i], consensus_scores))
          THEN <<results[i].evaluator>> ELSE <<>>)
         \o IdentifyOutliersFrom(results, consensus_scores, i + 1)

IdentifyOutliers(results, consensus_scores) ==
    IdentifyOutliersFrom(results, consensus_scores, 1)

----------------------------------------------------------------------------
(* AIEvaluator._generate_actionable_insights *)

\* An insight sentence: its template (kind), the criteria it names, the
\* numbers it prints (in tenths, as formatted by :.1f) and its fixed tail.
Insight(kind, criteria, numbers, detail) ==
    [kind |-> kind, criteria |-> criteria, numbers |-> numbers, detail |-> detail]

\* the if / elif chain over the weak criterion
WeaknessInsights(criterion, score) ==
    LET s == <<Format1f(score)>>
    IN  CASE criterion = "character_immersion" ->
               <<Insight("weakness", <<criterion>>, s,
                         "enhance world-building and environmental details")>>
          [] criterion = "story_progression" ->
               <<Insight("weakness", <<criterion>>, s,
                         "add more narrative hooks and plot advancement")>>
          [] criterion = "interactive_agency" ->
               <<Insight("weakness", <<criterion>>, s,
                         "make character more responsive to user input")>>
          [] criterion = "emotional_journey" ->
               <<Insight("weakness", <<criterion>>, s,
                         "expand emotional range and authentic reactions")>>
          [] criterion = "fantasy_fulfillment" ->
               <<Insight("weakness", <<criterion>>, s,
                         "enhance wish fulfillment and escapism elements")>>
          [] criterion = "character_authenticity" ->
               <<Insight("weakness", <<criterion>>, s,
                         "improve consistency and believability")>>
          [] OTHER -> <<>>

\* variant: score <= 6
IsWeakOrSix(score) == ~RatLT(Rat(6, 1), score)

\* score < 6
IsWeak(score) == RatLT(score, Rat(6, 1))

\* variant: score >= 8
IsStrongOrEight(score) == ~RatLT(score, Rat(8, 1))

\* score > 8
IsStrong(score) == RatLT(Rat(8, 1), score)

\* weak_areas: the keys of consensus_scores with a weak score, in key order
RECURSIVE WeakAreasFrom(_, _)
WeakAreasFrom(consensus_scores, k) ==
    IF k > Len(evaluation_criteria) THEN <<>>
    ELSE (IF IsWeak(consensus_scores[evaluation_criteria[k]])
          THEN <<evaluation_criteria[k]>> ELSE <<>>)
         \o WeakAreasFrom(consensus_scores, k + 1)

\* strong_areas: the keys of consensus_scores with a strong score, in key order
RECURSIVE StrongAreasFrom(_, _)
StrongAreasFrom(consensus_scores, k) ==
    IF k > Len(evaluation_criteria) THEN <<>>
    ELSE (IF IsStrong(consensus_scores[evaluation_criteria[k]])
          THEN <<evaluation_criteria[k]>> ELSE <<>>)
         \o StrongAreasFrom(consensus_scores, k + 1)

RECURSIVE WeakInsightsFrom(_, _, _)
WeakInsightsFrom(weak_areas, consensus_scores, i) ==
    IF i > Len(weak_areas) THEN <<>>
    ELSE WeaknessInsights(weak_areas[i], consensus_scores[weak_areas[i]])
         \o WeakInsightsFrom(weak_areas, consensus_scores, i + 1)

GenerateActionableInsights(results, consensus_scores, disagreements) ==
    LET weak_areas   == WeakAreasFrom(consensus_scores, 1)
        strong_areas == StrongAreasFrom(consensus_scores, 1)
    IN  WeakInsightsFrom(weak_areas, consensus_scores, 1)
        \o (IF strong_areas # <<>>
            THEN <<Insight("strengths", strong_areas, <<>>, "leverage these strengths")>>
            ELSE <<>>)
        \o (IF disagreements # <<>>
            THEN <<Insight("disagreement",
                           [i \in 1..Len(disagreements) |-> disagreements[i].criterion],
                           [i \in 1..Len(disagreements) |-> disagreements[i].range],
                           "may need human review")>>
            ELSE <<>>)

----------------------------------------------------------------------------
(* AIEvaluator.calculate_consensus *)

ConsensusAnalysis(consensus_scores, overall_consensus, agreement_level, disagreements, confidence_level, outlier_evaluations, actionable_insights) ==
    [ consensus_scores    |-> consensus_scores,
      overall_consensus   |-> overall_consensus,
      agreement_level     |-> agreement_level,
      disagreements       |-> disagreements,
      confidence_level    |-> confidence_level,
      outlier_evaluations |-> outlier_evaluations,
      actionable_insights |-> actionable_insights ]

\* consensus_scores[criterion] = statistics.median(scores)
ConsensusScores(results) ==
    [ c \in Criteria |-> median(ScoresFor(results, c)) ]

\* score_range = max(scores) - min(scores)
ScoreRange(scores) == SeqMax(scores) - SeqMin(scores)

\* variant: >= instead of >
RangeDisagreesAtThreshold(score_range) == score_range >= agreement_threshold

\* score_range > self.agreement_threshold
RangeDisagrees(score_range) == score_range > agreement_threshold

\* the list `disagreements`, appended to in the loop over evaluation_criteria
RECURSIVE DisagreementsFrom(_, _)
DisagreementsFrom(results, k) ==
    IF k > Len(evaluation_criteria) THEN <<>>
    ELSE LET criterion   == evaluation_criteria[k]
             score_range == ScoreRange(ScoresFor(results, criterion))
         IN  (IF RangeDisagrees(score_range)
              THEN <<[criterion |-> criterion, range |-> Format1f(Rat(score_range, 1))]>>
              ELSE <<>>)
             \o DisagreementsFrom(results, k + 1)

\* the body for two or more records
MultiConsensus(results) ==
    LET consensus_scores == ConsensusScores(results)
        disagreements    == DisagreementsFrom(results, 1)
    IN  ConsensusAnalysis(
            consensus_scores,
            RatDivInt(RatSum([k \in 1..Len(evaluation_criteria) |->
                                 consensus_scores[evaluation_criteria[k]]]),
                      Len(evaluation_criteria)),
            AgreementLevel(results),
            disagreements,
            RatDivInt(RatSum([i \in 1..Len(results) |-> results[i].confidence]),
                      Len(results)),
            IdentifyOutliers(results, consensus_scores),
            GenerateActionableInsights(results, consensus_scores, disagreements))

\* variant: the guard len(evaluation_results) < 1, a single record takes the general body
SingleThroughGeneralBody(results) == MultiConsensus(results)

\* the branch len(evaluation_results) < 2, for a non-empty mapping
SingleConsensus(results) ==
    LET single_result == results[1]
    IN  ConsensusAnalysis(
            [c \in Criteria |-> Rat(single_result.scores[c], 1)],
            single_result.overall_score,
            One, <<>>, single_result.confidence, <<>>, <<>>)

calculate_consensus(results) ==
    IF Len(results) < 2 THEN SingleConsensus(results) ELSE MultiConsensus(results)

\* the value of `analysis` while nothing was returned
EmptyAnalysis ==
    ConsensusAnalysis([c \in Criteria |-> Zero], Zero, Zero, <<>>, Zero, <<>>, <<>>)

----------------------------------------------------------------------------
(* The inputs: mappings evaluator -> EvaluationResult *)

Pos(c) == CHOOSE k \in 1..Len(evaluation_criteria) : evaluation_criteria[k] = c

ScorePatterns ==
    { [c \in Criteria |-> IF Pos(c) <= k THEN a ELSE b] :
          k \in 0..MaxPrefix, a \in ScoreValues, b \in ScoreValues }

\* the records a judge may return: every score pattern with the higher
\* confidence, the uniform patterns also with the lower one
InputRecords ==
    (ScorePatterns \X {8})
        \cup ({ [c \in Criteria |-> b] : b \in ScoreValues } \X ConfidenceTenths)

\* the position of a judge in the provider list (0: none yet)
ProviderIndex(evaluator) ==
    CHOOSE k \in 1..Len(EvaluationProviders) : EvaluationProviders[k] = evaluator

LastProviderIndex(results) ==
    IF results = <<>> THEN 0 ELSE ProviderIndex(results[Len(results)].evaluator)

----------------------------------------------------------------------------
(* The consensus engine as a state machine *)

ConsensusInit ==
    /\ evaluation_results = <<>>
    /\ outcome = "pending"
    /\ analysis = EmptyAnalysis
    /\ ParserIdle
    /\ OrchestratorIdle
    /\ PipelineIdle
    /\ ConversationIdle
    /\ SessionIdle

\* results[provider] = evaluation_result: the caller's mapping gains the record
\* of a further judge (judges are visited in provider order, any may be absent)
StoreResult(provider, scores, confidence) ==
    /\ outcome = "pending"
    /\ ProviderIndex(provider) > LastProviderIndex(evaluation_results)
    /\ evaluation_results' =
           Append(evaluation_results, EvaluationResult(provider, scores, confidence))
    /\ UNCHANGED <<outcome, analysis, parser_vars, orchestrator_vars, pipeline_vars,
                   conversation_vars, session_vars>>

\* a consensus engine that answers an empty mapping with a default analysis
CalculateConsensusDefaulting ==
    /\ outcome = "pending"
    /\ outcome' = "returned"
    /\ analysis' = IF Len(evaluation_results) = 0
                   THEN EmptyAnalysis
                   ELSE calculate_consensus(evaluation_results)
    /\ UNCHANGED <<evaluation_results, parser_vars, orchestrator_vars, pipeline_vars,
                   conversation_vars, session_vars>>

\* one call calculate_consensus(evaluation_results); list(...)[0] of an empty
\* mapping raises IndexError
CalculateConsensus ==
    /\ outcome = "pending"
    /\ IF Len(evaluation_results) = 0
       THEN /\ outcome' = "IndexError"
            /\ UNCHANGED analysis
       ELSE /\ outcome' = "returned"
            /\ analysis' = calculate_consensus(evaluation_results)
    /\ UNCHANGED <<evaluation_results, parser_vars, orchestrator_vars, pipeline_vars,
                   conversation_vars, session_vars>>

ConsensusNext ==
    \/ \E i \in (LastProviderIndex(evaluation_results) + 1)..Len(EvaluationProviders) :
           \E r \in InputRecords :
               StoreResult(EvaluationProviders[i], r[1], Rat(r[2], 10))
    \/ CalculateConsensus

ConsensusSpec == ConsensusInit /\ [][ConsensusNext]_vars

----------------------------------------------------------------------------
(* Properties of calculate_consensus *)

N == Len(evaluation_results)
Returned == outcome = "returned"
Judges == 1..N

\* the score judge i gave criterion c
ScoreOf(i, c) == evaluation_results[i].scores[c]

\* the r-th smallest of the judges' scores for c, by counting
OrderStatistic(c, r) ==
    CHOOSE v \in { ScoreOf(i, c) : i \in Judges } :
        /\ Cardinality({ i \in Judges : ScoreOf(i, c) <= v }) >= r
        /\ Cardinality({ i \in Judges : ScoreOf(i, c) >= v }) >= N - r + 1

\* twice the statistical median of the judges' scores for c
TwiceMedian(c) ==
    IF N % 2 = 1
    THEN 2 * OrderStatistic(c, (N + 1) \div 2)
    ELSE OrderStatistic(c, N \div 2) + OrderStatistic(c, (N \div 2) + 1)

\* the rational r equals the fraction num / den
RatIs(r, num, den) == r.n * den = num * r.d

\* C1: with two or more records, consensus_scores[C] is the statistical
\* median of the per-judge scores for C, for each of the six criteria: the
\* middle value when N is odd, the mean of the two middle values when N is even.
C1_ConsensusIsMedian ==
    (Returned /\ N >= 2) =>
        /\ DOMAIN analysis.consensus_scores = Criteria
        /\ \A c \in Criteria : RatIs(analysis.consensus_scores[c], TwiceMedian(c), 2)

\* two judges, tied on the first criterion and apart by an odd gap on the last
C1_Witness ==
    /\ Returned /\ N = 2
    /\ ScoreOf(1, "character_immersion") = ScoreOf(2, "character_immersion")
    /\ analysis.consensus_scores["character_immersion"]
           = Rat(ScoreOf(1, "character_immersion"), 1)
    /\ analysis.consensus_scores["character_authenticity"].d = 2

\* C2: with exactly one record the analysis is that record's own scores,
\* overall score and confidence, with agreement 1.0, no disagreements and no
\* outliers.
C2_SingleRecordDegenerates ==
    (Returned /\ N = 1) =>
        /\ \A c \in Criteria :
               RatIs(analysis.consensus_scores[c], ScoreOf(1, c), 1)
        /\ analysis.overall_consensus = evaluation_results[1].overall_score
        /\ analysis.confidence_level = evaluation_results[1].confidence
        /\ RatIs(analysis.agreement_level, 1, 1)
        /\ analysis.disagreements = <<>>
        /\ analysis.outlier_evaluations = <<>>

\* a single record of low confidence whose scores are all below 6
C2_Witness ==
    /\ Returned /\ N = 1
    /\ \A c \in Criteria : ScoreOf(1, c) < 6
    /\ RatIs(analysis.confidence_level, 5, 10)
    /\ RatIs(analysis.overall_consensus, 3, 1)

\* judge i's score for c is more than 2.0 away from the consensus score
DeviatesOn(i, c) ==
    LET m == analysis.consensus_scores[c]
    IN  \/ ScoreOf(i, c) * m.d - m.n > 2 * m.d
        \/ m.n - ScoreOf(i, c) * m.d > 2 * m.d

DeviationCount(i) == Cardinality({ c \in Criteria : DeviatesOn(i, c) })

InSeq(x, seq) == \E k \in 1..Len(seq) : seq[k] = x

IsFlagged(i) == InSeq(evaluation_results[i].evaluator, analysis.outlier_evaluations)

\* C3: with two or more records, an evaluator is in outlier_evaluations
\* exactly when it is more than 2.0 away from the consensus on more than 3 of
\* the 6 criteria (so not when it deviates on exactly 3, or by exactly 2.0).
C3_OutlierIffMoreThanHalf ==
    (Returned /\ N >= 2) =>
        /\ \A i \in Judges : IsFlagged(i) <=> DeviationCount(i) >= 4
        /\ \A k \in 1..Len(analysis.outlier_evaluations) :
               \E i \in Judges :
                   evaluation_results[i].evaluator = analysis.outlier_evaluations[k]

\* one judge deviates on exactly 4 criteria and is flagged; another is not
\* flagged although it is exactly 2.0 away from the consensus on a criterion
C3_Witness ==
    /\ Returned /\ N >= 2
    /\ \E i \in Judges : DeviationCount(i) = 4 /\ IsFlagged(i)
    /\ \E i \in Judges :
           /\ ~IsFlagged(i)
           /\ \E c \in Criteria :
                  LET m == analysis.consensus_scores[c]
                  IN  Abs(ScoreOf(i, c) * m.d - m.n) = 2 * m.d

Others(i) == Judges \ {i}

\* judge i's score for c differs from every other judge's by more than 2.0
DisagreesWithOthersOn(i, c) ==
    \A j \in Others(i) : Abs(ScoreOf(i, c) - ScoreOf(j, c)) > 2

\* the other judges' scores for c are within 2.0 of one another
OthersAgreeOn(i, c) ==
    \A j, k \in Others(i) : Abs(ScoreOf(j, c) - ScoreOf(k, c)) <= 2

\* C4 as stated: with three judges, a judge that differs from both others by
\* more than 2.0 on 4 of the 6 criteria is the only one in outlier_evaluations,
\* whatever the scores of the other two.
C4_LoneDissenterAlwaysFlagged ==
    (Returned /\ N = 3) =>
        \A i \in Judges :
            Cardinality({ c \in Criteria : DisagreesWithOthersOn(i, c) }) = 4
                => /\ IsFlagged(i)
                   /\ \A j \in Others(i) : ~IsFlagged(j)

\* C4 amended: with three judges, a judge that differs from both others by
\* more than 2.0 on at least 4 criteria on which the other two are within 2.0
\* of each other is in outlier_evaluations, and neither of the others is.
C4_LoneDissenterFlaggedWhenOthersAgree ==
    (Returned /\ N = 3) =>
        \A i \in Judges :
            Cardinality({ c \in Criteria :
                DisagreesWithOthersOn(i, c) /\ OthersAgreeOn(i, c) }) >= 4
                => /\ IsFlagged(i)
                   /\ \A j \in Others(i) : ~IsFlagged(j)

\* a judge dissents on exactly 4 criteria on which the other two differ by
\* exactly 2.0, and it alone is flagged
C4_Witness ==
    /\ Returned /\ N = 3
    /\ \E i \in Judges :
           /\ Cardinality({ c \in Criteria :
                  /\ DisagreesWithOthersOn(i, c)
                  /\ \E j, k \in Others(i) :
                         Abs(ScoreOf(j, c) - ScoreOf(k, c)) = 2 }) = 4
           /\ Cardinality({ c \in Criteria : DisagreesWithOthersOn(i, c) }) = 4
           /\ IsFlagged(i)
           /\ \A j \in Others(i) : ~IsFlagged(j)

\* the largest gap between two judges' scores for c
MaxGap(c) ==
    CHOOSE g \in { ScoreOf(i, c) - ScoreOf(j, c) : i, j \in Judges } :
        \A i, j \in Judges : ScoreOf(i, c) - ScoreOf(j, c) <= g

CriterionIndex(c) ==
    CHOOSE k \in 1..Len(evaluation_criteria) : evaluation_criteria[k] = c

\* C5: with two or more records, a criterion is listed in disagreements, with
\* its range printed to one decimal, exactly when max - min of its scores is
\* more than 2.0; no criterion is listed twice and the entries follow the
\* order of the criteria.
C5_DisagreementsIffRangeAboveThreshold ==
    (Returned /\ N >= 2) =>
        LET d == analysis.disagreements
        IN  /\ \A c \in Criteria :
                   (\E k \in 1..Len(d) : d[k].criterion = c) <=> MaxGap(c) > 2
            /\ \A k \in 1..Len(d) :
                   /\ d[k].criterion \in Criteria
                   /\ d[k].range = 10 * MaxGap(d[k].criterion)
            /\ \A k, l \in 1..Len(d) :
                   k < l => CriterionIndex(d[k].criterion) < CriterionIndex(d[l].criterion)

\* two criteria are listed and a third, whose range is exactly 2, is not
C5_Witness ==
    /\ Returned /\ N >= 2
    /\ Len(analysis.disagreements) = 2
    /\ \E c \in Criteria :
           /\ MaxGap(c) = 2
           /\ \A k \in 1..Len(analysis.disagreements) :
                  analysis.disagreements[k].criterion # c

\* the unordered pairs of judges
JudgePairs == { p \in Judges \X Judges : p[1] < p[2] }

\* twice the agreement of a pair on c: max(0, 2 - |difference|)
TwicePairAgreement(p, c) ==
    LET gap == Abs(ScoreOf(p[1], c) - ScoreOf(p[2], c))
    IN  IF gap >= 2 THEN 0 ELSE 2 - gap

RECURSIVE SumOver(_, _)
SumOver(S, f) ==
    IF S = {} THEN 0
    ELSE LET x == CHOOSE y \in S : TRUE
         IN  f[x] + SumOver(S \ {x}, f)

\* the sum over criteria and pairs of twice the pair agreement
TwiceAgreementTotal ==
    SumOver(Criteria \X JudgePairs,
            [cp \in Criteria \X JudgePairs |-> TwicePairAgreement(cp[2], cp[1])])

AllJudgesIdentical ==
    \A c \in Criteria : \A i, j \in Judges : ScoreOf(i, c) = ScoreOf(j, c)

\* C6: with two or more records, agreement_level is the mean over the six
\* criteria of the mean over the unordered judge pairs of
\* max(0, 1 - |score_i - score_j| / 2.0); it lies in [0, 1] and is 1.0 exactly
\* when all judges give identical scores on every criterion.
C6_AgreementLevelIsMeanPairwise ==
    (Returned /\ N >= 2) =>
        LET a == analysis.agreement_level
        IN  /\ RatIs(a, TwiceAgreementTotal, 2 * Cardinality(JudgePairs) * 6)
            /\ a.d > 0 /\ 0 <= a.n /\ a.n <= a.d
            /\ (a.n = a.d) <=> AllJudgesIdentical

\* three judges, a level strictly between 0 and 1, one pair more than 2.0
\* apart (its agreement is cut off at 0) and one pair 1 apart
C6_Witness ==
    /\ Returned /\ N = 3
    /\ 0 < analysis.agreement_level.n
    /\ analysis.agreement_level.n < analysis.agreement_level.d
    /\ \E c \in Criteria, p \in JudgePairs :
           Abs(ScoreOf(p[1], c) - ScoreOf(p[2], c)) > 2
    /\ \E c \in Criteria, p \in JudgePairs :
           Abs(ScoreOf(p[1], c) - ScoreOf(p[2], c)) = 1

ConsensusOf(c) == analysis.consensus_scores[c]

WeakCriteria == { c \in Criteria : ConsensusOf(c).n < 6 * ConsensusOf(c).d }
StrongCriteria == { c \in Criteria : ConsensusOf(c).n > 8 * ConsensusOf(c).d }
AdequateCriteria == Criteria \ (WeakCriteria \cup StrongCriteria)

Insights == analysis.actionable_insights

SeqRange(seq) == { seq[k] : k \in 1..Len(seq) }

\* C7: with two or more records, actionable_insights is: one weakness
\* sentence for each criterion whose consensus score is below 6 (naming it and
\* its score to one decimal), then a strengths sentence if and only if some
\* score is above 8, listing exactly those criteria, then a disagreement
\* sentence if and only if disagreements is non-empty; and nothing else.
C7_InsightsStructure ==
    (Returned /\ N >= 2) =>
        LET w == Cardinality(WeakCriteria)
            s == IF StrongCriteria # {} THEN 1 ELSE 0
            d == IF analysis.disagreements # <<>> THEN 1 ELSE 0
        IN  /\ Len(Insights) = w + s + d
            /\ \A k \in 1..w :
                   /\ Insights[k].kind = "weakness"
                   /\ Len(Insights[k].criteria) = 1
                   /\ Insights[k].criteria[1] \in WeakCriteria
                   /\ Len(Insights[k].numbers) = 1
                   /\ RatIs(ConsensusOf(Insights[k].criteria[1]),
                            Insights[k].numbers[1], 10)
            /\ \A c \in WeakCriteria :
                   Cardinality({ k \in 1..w : Insights[k].criteria = <<c>> }) = 1
            /\ s = 1 =>
                   /\ Insights[w + 1].kind = "strengths"
                   /\ SeqRange(Insights[w + 1].criteria) = StrongCriteria
                   /\ Len(Insights[w + 1].criteria) = Cardinality(StrongCriteria)
            /\ d = 1 =>
                   /\ Insights[w + s + 1].kind = "disagreement"
                   /\ Insights[w + s + 1].criteria =
                          [k \in 1..Len(analysis.disagreements) |->
                              analysis.disagreements[k].criterion]

\* two weak criteria, a strength, a disagreement, and a criterion scored
\* exactly 6 that gets no sentence of its own
C7_Witness ==
    /\ Returned /\ N >= 2
    /\ Cardinality(WeakCriteria) = 2
    /\ StrongCriteria # {}
    /\ analysis.disagreements # <<>>
    /\ Len(Insights) = 4
    /\ \E c \in Criteria : ConsensusOf(c) = Rat(6, 1)

NamedIn(c, insight) == c \in SeqRange(insight.criteria)

\* C8 as stated: a criterion whose consensus score lies between 6 and 8 is
\* named in no entry of actionable_insights.
C8_AdequateCriterionNamedNowhere ==
    Returned =>
        \A c \in Criteria :
            (ConsensusOf(c).n > 6 * ConsensusOf(c).d
                /\ ConsensusOf(c).n < 8 * ConsensusOf(c).d)
            => \A k \in 1..Len(Insights) : ~NamedIn(c, Insights[k])

\* C8 amended: a criterion whose consensus score lies in the band from 6 to 8
\* is named in no weakness sentence and in no strengths sentence (it is
\* named in the disagreement sentence when it is disputed).
C8_AdequateCriterionNoWeaknessNoStrength ==
    Returned =>
        \A c \in AdequateCriteria :
            \A k \in 1..Len(Insights) :
                Insights[k].kind \in {"weakness", "strengths"} => ~NamedIn(c, Insights[k])

\* a weakness and a strengths sentence exist, and a criterion inside the band
\* is named by the disagreement sentence only
C8_Witness ==
    /\ Returned
    /\ \E k \in 1..Len(Insights) : Insights[k].kind = "weakness"
    /\ \E k \in 1..Len(Insights) : Insights[k].kind = "strengths"
    /\ Insights[Len(Insights)].kind = "disagreement"
    /\ \E c \in AdequateCriteria :
           /\ ConsensusOf(c) # Rat(8, 1) /\ ConsensusOf(c) # Rat(6, 1)
           /\ NamedIn(c, Insights[Len(Insights)])
           /\ \A k \in 1..(Len(Insights) - 1) : ~NamedIn(c, Insights[k])

\* C9: whatever the number of records, each criterion whose consensus score
\* is below 6 has a weakness sentence in actionable_insights.
C9_WeaknessSentenceForEveryLowScore ==
    Returned =>
        \A c \in WeakCriteria :
            \E k \in 1..Len(Insights) :
                Insights[k].kind = "weakness" /\ Insights[k].criteria = <<c>>

AllScoresSeven == \A i \in Judges : \A c \in Criteria : ScoreOf(i, c) = 7

\* C10: three judges who all score every criterion 7 give overall_consensus
\* 7.0, agreement_level 1.0, and no disagreements, outliers or insights.
C10_UnanimousSevens ==
    (Returned /\ N = 3 /\ AllScoresSeven) =>
        /\ RatIs(analysis.overall_consensus, 7, 1)
        /\ RatIs(analysis.agreement_level, 1, 1)
        /\ analysis.disagreements = <<>>
        /\ analysis.outlier_evaluations = <<>>
        /\ analysis.actionable_insights = <<>>

\* the analysis of three unanimous judges has been returned
C10_Witness ==
    /\ Returned /\ N = 3 /\ AllScoresSeven
    /\ \A c \in Criteria : ConsensusOf(c) = Rat(7, 1)

\* C18: a call of calculate_consensus on a mapping with no judge record ends
\* in an error raised to the caller; no ConsensusAnalysis is returned.
C18_EmptyMappingRaises ==
    (outcome # "pending" /\ N = 0) =>
        /\ outcome = "IndexError"
        /\ analysis = EmptyAnalysis

\* calculate_consensus has been called on the empty mapping and has raised
C18_Witness ==
    /\ N = 0
    /\ outcome = "IndexError"

----------------------------------------------------------------------------
(* Texts: a response is a sequence of symbols *)

\* a symbol of a text: t is its kind, s its characters, n its number (the
\* value of a number literal, the length in characters of anything else)
Sym(t, s, n) == [t |-> t, s |-> s, n |-> n]

Lb == Sym("lb", "{", 1)
Rb == Sym("rb", "}", 1)
Comma == Sym("comma", ",", 1)
Colon == Sym("colon", ":", 1)

\* a complete string literal "s" without braces in it, n characters long
Str(s, n) == Sym("str", s, n)

\* the opening quote of a string literal and its first characters; the last
\* characters of a string literal and its closing quote
SOpen(s, n) == Sym("sopen", s, n)
SClose(s, n) == Sym("sclose", s, n)

\* characters without quote or brace
Word(s, n) == Sym("word", s, n)

\* a number literal
Num(n) == Sym("num", "", n)

\* an array literal of n elements without braces in it
Arr(n) == Sym("arr", "", n)

Key(name) == Str(name, 0)

RECURSIVE Join(_)
Join(parts) ==
    IF parts = <<>> THEN <<>>
    ELSE IF Len(parts) = 1 THEN parts[1]
    ELSE parts[1] \o <<Comma>> \o Join(Tail(parts))

\* the rendering of a dict of numbers and of a dict of string literals
RenderScores(scores) ==
    <<Lb>> \o Join([k \in 1..Len(scores) |->
                       <<Key(scores[k].key), Colon, Num(scores[k].value)>>])
           \o <<Rb>>

RenderReasoning(reasoning) ==
    <<Lb>> \o Join([k \in 1..Len(reasoning) |->
                       <<Key(reasoning[k].key), Colon>> \o reasoning[k].text])
           \o <<Rb>>

RenderField(doc, field) ==
    IF field = "scores" THEN <<Key("scores"), Colon>> \o RenderScores(doc.scores)
    ELSE IF field = "reasoning"
         THEN <<Key("reasoning"), Colon>> \o RenderReasoning(doc.reasoning)
    ELSE <<Key(field), Colon, Arr(2)>>

\* the JSON object of a document, as json.dumps writes it
RenderJson(doc) ==
    <<Lb>> \o Join([k \in 1..Len(doc.fields) |-> RenderField(doc, doc.fields[k])])
           \o <<Rb>>

\* the text kept when the response is cut after cut symbols of its JSON
\* object (cut = 0: not cut); midstring: the cut falls inside the last kept
\* string literal, whose closing quote is lost
Truncate(json, cut, midstring) ==
    IF cut = 0 THEN json
    ELSE IF midstring /\ json[cut].t = "str"
         THEN SubSeq(json, 1, cut - 1) \o <<SOpen(json[cut].s, json[cut].n)>>
    ELSE SubSeq(json, 1, cut)

\* the response a judge sends for a document: preamble, JSON object, postamble
Render(doc) ==
    doc.preamble \o Truncate(RenderJson(doc), doc.cut, doc.midstring)
                 \o (IF doc.cut = 0 THEN doc.postamble ELSE <<>>)

----------------------------------------------------------------------------
(* Extraction of the JSON object: the regular expressions of the parser *)

NoMatch == [found |-> FALSE, content |-> <<>>]

Match(text, i, j) == [found |-> TRUE, content |-> SubSeq(text, i, j)]

Positions(text, kind) == { i \in 1..Len(text) : text[i].t = kind }

SetMin(S) == CHOOSE x \in S : \A y \in S : x <= y

SetMax(S) == CHOOSE x \in S : \A y \in S : x >= y

\* re.search(r"\{.*\}", text, re.DOTALL): from the first opening brace that
\* has a closing brace after it to the last closing brace of the text
GreedyBraceSpan(text) ==
    LET opens == Positions(text, "lb")
        closes == Positions(text, "rb")
    IN  IF opens # {} /\ closes # {} /\ SetMin(opens) < SetMax(closes)
        THEN Match(text, SetMin(opens), SetMax(closes))
        ELSE NoMatch

\* where \{[^{}]*(?:\{[^{}]*\}[^{}]*)*\} ends when it starts just before k
\* (0: it does not match): braces nest at most two deep
RECURSIVE NestedScan(_, _, _)
NestedScan(text, k, depth) ==
    IF k > Len(text) THEN 0
    ELSE IF text[k].t = "rb"
         THEN IF depth = 1 THEN k ELSE NestedScan(text, k + 1, 1)
    ELSE IF text[k].t = "lb"
         THEN IF depth = 1 THEN NestedScan(text, k + 1, 2) ELSE 0
    ELSE NestedScan(text, k + 1, depth)

\* re.search(r"\{[^{}]*(?:\{[^{}]*\}[^{}]*)*\}", text, re.DOTALL): the
\* leftmost opening brace from which the pattern matches
NestedBraceSpan(text) ==
    LET starts == { i \in Positions(text, "lb") : NestedScan(text, i + 1, 1) > 0 }
    IN  IF starts = {} THEN NoMatch
        ELSE Match(text, SetMin(starts), NestedScan(text, SetMin(starts) + 1, 1))

\* re.search(r"\{.*?\}(?=\s*$|\s*[^}])", text, re.DOTALL), for symbols
\* written without white space between them: from the leftmost opening
\* brace to the first closing brace not followed by a closing brace
LazyBraceSpan(text) ==
    LET ends(i) == { j \in Positions(text, "rb") :
                        j > i /\ (j = Len(text) \/ text[j + 1].t # "rb") }
        starts == { i \in Positions(text, "lb") : ends(i) # {} }
    IN  IF starts = {} THEN NoMatch
        ELSE Match(text, SetMin(starts), SetMin(ends(SetMin(starts))))

\* evaluator == "claude_thinking"
ClaudeJsonContent(text) == GreedyBraceSpan(text)

\* evaluator == "o3": the first of three patterns that matches
O3JsonContent(text) ==
    IF NestedBraceSpan(text).found THEN NestedBraceSpan(text)
    ELSE IF LazyBraceSpan(text).found THEN LazyBraceSpan(text)
    ELSE GreedyBraceSpan(text)

EndsWithBrace(content) == content # <<>> /\ content[Len(content)].t = "rb"

\* '"character_authenticity"' in json_content
HasAuthenticityKey(content) ==
    \E i \in 1..Len(content) : content[i] = Key("character_authenticity")

\* '"character_authenticity":' in json_content
HasAuthenticityKeyColon(content) ==
    \E i \in 1..(Len(content) - 1) :
        content[i] = Key("character_authenticity") /\ content[i + 1].t = "colon"

\* the characters of a name after its first eight, "characte"
AfterCharacte(name) ==
    IF name = "character_authenticity" THEN "r_authenticity"
    ELSE IF name = "character_immersion" THEN "r_immersion"
    ELSE ""

\* the symbol starts with the nine characters "characte (quote included)
StartsQuoteCharacte(sym) ==
    sym.t \in {"str", "sopen"} /\ AfterCharacte(sym.s) # ""

\* json_content.replace('"characte', '"character_authenticity": 8}'): every
\* occurrence is replaced, and the rest of the name stays behind it
RECURSIVE ReplaceCharacte(_)
ReplaceCharacte(content) ==
    IF content = <<>> THEN <<>>
    ELSE LET sym == content[1]
             rest == AfterCharacte(sym.s)
         IN  (IF StartsQuoteCharacte(sym)
              THEN <<Key("character_authenticity"), Colon, Num(8), Rb,
                     IF sym.t = "str" THEN SClose(rest, 0) ELSE Word(rest, 0)>>
              ELSE <<sym>>)
             \o ReplaceCharacte(Tail(content))

\* the repair of a span that does not end with a closing brace
RepairTruncated(content) ==
    IF HasAuthenticityKey(content) /\ ~HasAuthenticityKeyColon(content)
    THEN ReplaceCharacte(content)
    ELSE Append(content, Rb)

CountOf(content, kind) == Cardinality(Positions(content, kind))

RECURSIVE Closing(_)
Closing(n) == IF n <= 0 THEN <<>> ELSE <<Rb>> \o Closing(n - 1)

\* a repair that works: the span runs to the end of the text, a dangling
\* last key gets the placeholder value 8 and every open object is closed
DeepseekJsonContentRepairing(text) ==
    LET opens == Positions(text, "lb")
        tail == SubSeq(text, SetMin(opens), Len(text))
        valued == IF tail[Len(tail)] = Key("character_authenticity")
                  THEN tail \o <<Colon, Num(8)>>
                  ELSE tail
    IN  IF opens = {} THEN NoMatch
        ELSE IF EndsWithBrace(tail) THEN [found |-> TRUE, content |-> tail]
        ELSE [found |-> TRUE,
              content |-> valued \o Closing(CountOf(valued, "lb") - CountOf(valued, "rb"))]

\* evaluator == "deepseek_reasoner": the greedy span, repaired when it does
\* not end with a closing brace
DeepseekJsonContent(text) ==
    LET m == GreedyBraceSpan(text)
    IN  IF ~m.found THEN NoMatch
        ELSE IF ~EndsWithBrace(m.content)
             THEN [found |-> TRUE, content |-> RepairTruncated(m.content)]
        ELSE m

\* any other evaluator
DefaultJsonContent(text) == GreedyBraceSpan(text)

ExtractJson(judge, text) ==
    IF judge = "claude_thinking" THEN ClaudeJsonContent(text)
    ELSE IF judge = "o3" THEN O3JsonContent(text)
    ELSE IF judge = "deepseek_reasoner" THEN DeepseekJsonContent(text)
    ELSE DefaultJsonContent(text)

----------------------------------------------------------------------------
(* json.loads on a text *)

\* a JSON value: a number n, a string (its symbols), an array of n elements,
\* or an object (its members, a dict from key to value)
NumVal(n) == [kind |-> "num", n |-> n, text |-> <<>>, members |-> <<>>]
StrVal(text) == [kind |-> "str", n |-> 0, text |-> text, members |-> <<>>]
ArrVal(n) == [kind |-> "arr", n |-> n, text |-> <<>>, members |-> <<>>]
ObjVal(members) == [kind |-> "obj", n |-> 0, text |-> <<>>, members |-> members]

Member(key, val) == [key |-> key, val |-> val]

\* d[key] = val on a dict: a key already there keeps its place
DictSet(members, key, val) ==
    IF \E k \in 1..Len(members) : members[k].key = key
    THEN [k \in 1..Len(members) |->
             IF members[k].key = key THEN Member(key, val) ELSE members[k]]
    ELSE Append(members, Member(key, val))

DictKeys(members) == { members[k].key : k \in 1..Len(members) }

DictGet(members, key) ==
    members[CHOOSE k \in 1..Len(members) : members[k].key = key].val

\* the outcome of reading a value: the value and the place after it
Read(val, next) == [ok |-> TRUE, val |-> val, next |-> next]

Unreadable == [ok |-> FALSE, val |-> NumVal(0), next |-> 0]

\* where the string literal opened at i closes (0: nowhere): at the first
\* later symbol that carries a quote, provided the quote closes a string
StringEnd(text, i) ==
    LET quotes == { j \in (i + 1)..Len(text) : text[j].t \in {"str", "sopen", "sclose"} }
    IN  IF quotes # {} /\ text[SetMin(quotes)].t = "sclose" THEN SetMin(quotes) ELSE 0

RECURSIVE ReadValue(_, _), ReadMembers(_, _, _)

\* the JSON value that starts at symbol i of the text
ReadValue(text, i) ==
    IF i > Len(text) THEN Unreadable
    ELSE IF text[i].t = "num" THEN Read(NumVal(text[i].n), i + 1)
    ELSE IF text[i].t = "arr" THEN Read(ArrVal(text[i].n), i + 1)
    ELSE IF text[i].t = "str" THEN Read(StrVal(<<text[i]>>), i + 1)
    ELSE IF text[i].t = "sopen"
         THEN IF StringEnd(text, i) = 0 THEN Unreadable
              ELSE Read(StrVal(SubSeq(text, i, StringEnd(text, i))),
                        StringEnd(text, i) + 1)
    ELSE IF text[i].t = "lb"
         THEN IF i + 1 <= Len(text) /\ text[i + 1].t = "rb"
              THEN Read(ObjVal(<<>>), i + 2)
              ELSE ReadMembers(text, i + 1, <<>>)
    ELSE Unreadable

\* the members of an object from symbol i on: key, colon, value, and then a
\* comma and more members or the closing brace; keys are brace-free strings
ReadMembers(text, i, members) ==
    IF i + 1 > Len(text) \/ text[i].t # "str" \/ text[i + 1].t # "colon"
    THEN Unreadable
    ELSE LET v == ReadValue(text, i + 2)
             more == DictSet(members, text[i].s, v.val)
         IN  IF ~v.ok \/ v.next > Len(text) THEN Unreadable
             ELSE IF text[v.next].t = "rb" THEN Read(ObjVal(more), v.next + 1)
             ELSE IF text[v.next].t = "comma" THEN ReadMembers(text, v.next + 1, more)
             ELSE Unreadable

\* json.loads(json_content): the whole text must be one value
\* (json.JSONDecodeError otherwise)
JsonLoads(content) ==
    LET v == ReadValue(content, 1)
    IN  IF v.ok /\ v.next = Len(content) + 1 THEN v ELSE Unreadable

----------------------------------------------------------------------------
(* _parse_evaluation_response and _calculate_response_confidence *)

\* bool(value) of a JSON value
Truthy(val) ==
    IF val.kind = "num" THEN val.n # 0
    ELSE IF val.kind = "arr" THEN val.n > 0
    ELSE IF val.kind = "obj" THEN val.members # <<>>
    ELSE IntSum([k \in 1..Len(val.text) |-> val.text[k].n]) > 0

\* len(value) of a JSON value that has a length
LenOf(val) ==
    IF val.kind = "arr" THEN val.n
    ELSE IF val.kind = "obj" THEN Len(val.members)
    ELSE IntSum([k \in 1..Len(val.text) |-> val.text[k].n])

\* evaluation_data.get(key) is there and true
GetTruthy(members, key) ==
    key \in DictKeys(members) /\ Truthy(DictGet(members, key))

\* reasoning.values() or len(r) raises: a true reasoning that is no dict, or
\* a number among its values
ConfidenceRaises(evaluation_data) ==
    LET reasoning == DictGet(evaluation_data, "reasoning")
    IN  /\ "reasoning" \in DictKeys(evaluation_data)
        /\ Truthy(reasoning)
        /\ \/ reasoning.kind # "obj"
           \/ \E k \in 1..Len(reasoning.members) : reasoning.members[k].val.kind = "num"

\* the confidence in tenths: 0.5, more for long reasoning and for the
\* optional lists, at most 1.0
calculate_response_confidence(evaluation_data) ==
    LET reasoning == IF "reasoning" \in DictKeys(evaluation_data)
                     THEN DictGet(evaluation_data, "reasoning")
                     ELSE ObjVal(<<>>)
        total == IntSum([k \in 1..Len(reasoning.members) |->
                            LenOf(reasoning.members[k].val)])
        detail == IF ~Truthy(reasoning) THEN 0
                  ELSE IF total > 100 * Len(reasoning.members) THEN 2
                  ELSE IF total > 50 * Len(reasoning.members) THEN 1
                  ELSE 0
        bonus(key) == IF GetTruthy(evaluation_data, key) THEN 1 ELSE 0
        tenths == 5 + detail + bonus("key_strengths") + bonus("key_weaknesses")
                    + bonus("improvement_recommendations")
    IN  IF tenths > 10 THEN 10 ELSE tenths

\* metadata.get(key) and metadata.get(key, default)
MetaGet(meta, key, default) ==
    IF key \in DictKeys(meta) THEN DictGet(meta, key) ELSE default

\* the model_metadata dict of a record
ModelMetadata(meta) ==
    IF meta = <<>> THEN <<>>
    ELSE << Member("model", MetaGet(meta, "model", "None")),
            Member("provider", MetaGet(meta, "provider", "None")),
            Member("has_reasoning", MetaGet(meta, "has_reasoning", "False")),
            Member("has_thinking", MetaGet(meta, "has_thinking", "False")),
            Member("api_method", MetaGet(meta, "api_method", "None")),
            Member("reasoning_effort", MetaGet(meta, "reasoning_effort", "None")),
            Member("thinking_budget", MetaGet(meta, "thinking_budget", "None")) >>

\* the EvaluationResult dataclass, every field of it
ParsedRecord(judge, now, scores, reasoning, overall, confidence, raw, meta) ==
    [ evaluator |-> judge,
      timestamp |-> now,
      scores |-> scores,
      reasoning |-> reasoning,
      overall_score |-> overall,
      confidence |-> confidence,
      raw_response |-> raw,
      reasoning_content |-> MetaGet(meta, "reasoning_content", "None"),
      thinking_content |-> MetaGet(meta, "thinking_content", "None"),
      token_usage |-> MetaGet(meta, "token_usage", "None"),
      response_time |-> MetaGet(meta, "response_time", "None"),
      model_metadata |-> ModelMetadata(meta) ]

\* the scores dict of a record: criterion (or other key) to number
ScoreEntries(members) ==
    [k \in 1..Len(members) |-> [key |-> members[k].key, value |-> members[k].val.n]]

NullRecord == ParsedRecord("", 0, <<>>, ObjVal(<<>>), Zero, Zero, <<>>, <<>>)

\* what a run of the parser gives: the record returned (None: returned is
\* FALSE) and the message printed, with the set it names
Returns(record) ==
    [returned |-> TRUE, record |-> record, printed |-> "", missing |-> {}]

Fails(message, missing) ==
    [returned |-> FALSE, record |-> NullRecord, printed |-> message, missing |-> missing]

\* a check that also reports the keys of scores that are no criteria
MissingOrUnrecognized(scores) ==
    (Criteria \ DictKeys(scores)) \cup (DictKeys(scores) \ Criteria)

\* set(self.evaluation_criteria) - set(scores.keys())
MissingCriteria(scores) == Criteria \ DictKeys(scores)

\* sum(scores.values()) / len(scores): over every key of the scores dict
MeanOfAllValues(scores) ==
    Rat(IntSum([k \in 1..Len(scores) |-> scores[k].val.n]), Len(scores))

\* _parse_evaluation_response(response, evaluator, metadata), the clock
\* showing now
parse_evaluation_response(response, judge, meta, now) ==
    LET m == ExtractJson(judge, response)
        loaded == JsonLoads(m.content)
        evaluation_data == loaded.val.members
        scores == DictGet(evaluation_data, "scores")
        reasoning == DictGet(evaluation_data, "reasoning")
    IN  IF ~m.found THEN Fails("No JSON found", {})
        ELSE IF ~loaded.ok THEN Fails("JSON parsing error", {})
        ELSE IF loaded.val.kind # "obj" THEN Fails("Error parsing", {})
        ELSE IF "scores" \notin DictKeys(evaluation_data)
                \/ "reasoning" \notin DictKeys(evaluation_data)
             THEN Fails("Missing required fields", {})
        ELSE IF scores.kind # "obj" THEN Fails("Error parsing", {})
        ELSE IF MissingCriteria(scores.members) # {}
             THEN Fails("Missing criteria", MissingCriteria(scores.members))
        ELSE IF \E k \in 1..Len(scores.members) : scores.members[k].val.kind # "num"
             THEN Fails("Error parsing", {})
        ELSE IF ConfidenceRaises(evaluation_data) THEN Fails("Error parsing", {})
        ELSE Returns(ParsedRecord(judge, now, ScoreEntries(scores.members), reasoning,
                                  MeanOfAllValues(scores.members),
                                  Rat(calculate_response_confidence(evaluation_data), 10),
                                  response, meta))

----------------------------------------------------------------------------
(* The responses given to the parser *)

\* runs of the parser on one response, and readings of the clock
MaxRuns == 2
MaxClock == 1

Entry(key, value) == [key |-> key, value |-> value]

\* the six criteria in the order of the evaluator's list, with the given values
ScoresOfValues(values) ==
    [k \in 1..Len(evaluation_criteria) |-> Entry(evaluation_criteria[k], values[k])]

Without(scores, keys) == SelectSeq(scores, LAMBDA e : e.key \notin keys)

Reversed(s) == [k \in 1..Len(s) |-> s[Len(s) + 1 - k]]

AllSevens == ScoresOfValues(<<7, 7, 7, 7, 7, 7>>)

\* the scores objects: complete (in range, out of range, in reverse order),
\* lacking criteria, carrying a key that is no criterion, and empty
ScoreObjects ==
    { AllSevens,
      ScoresOfValues(<<12, 7, 7, 0, 7, 10>>),
      Reversed(AllSevens),
      Without(AllSevens, {"character_authenticity"}),
      Without(AllSevens, {"story_progression", "emotional_journey"}),
      Append(AllSevens, Entry("humor", 1)),
      Append(Without(AllSevens, {"story_progression", "emotional_journey"}),
             Entry("humor", 1)),
      <<>> }

Explanation(key, text) == [key |-> key, text |-> text]

\* a string literal with a brace pair in it: "fills the {user} slot"
BracedText == <<SOpen("fills the ", 10), Lb, Word("user", 4), Rb, SClose(" slot", 5)>>

\* the reasoning objects: empty, one long explanation, a short explanation
\* and one with braces in its text
ReasoningObjects ==
    { <<>>,
      <<Explanation("character_immersion", <<Str("stays in role", 120)>>)>>,
      <<Explanation("character_immersion", <<Str("stays in role", 60)>>),
        Explanation("interactive_agency", BracedText)>> }

FieldOrders ==
    { <<"scores", "reasoning">>,
      <<"reasoning", "scores">>,
      <<"scores">>,
      <<"scores", "reasoning", "key_strengths">> }

PlainPreamble == <<Word("Here is my evaluation", 21)>>

Preambles == { <<>>, PlainPreamble, <<Word("Using", 5), Lb, Word("rubric", 6), Rb>> }

Postambles == { <<>>, <<Word("Hope this helps", 15)>> }

Document(preamble, fields, scores, reasoning, postamble, cut, midstring) ==
    [ preamble |-> preamble, fields |-> fields, scores |-> scores,
      reasoning |-> reasoning, postamble |-> postamble,
      cut |-> cut, midstring |-> midstring ]

\* responses that arrive whole
WholeDocuments ==
    { Document(pre, f, s, r, post, 0, FALSE) :
        pre \in Preambles, f \in FieldOrders, s \in ScoreObjects,
        r \in ReasoningObjects, post \in Postambles }

\* where the JSON object of a document can be cut: after any symbol but the
\* last, and inside any string literal
CutsOf(doc) ==
    LET json == RenderJson(doc)
    IN  { <<cut, FALSE>> : cut \in 1..(Len(json) - 1) }
            \cup { <<cut, TRUE>> : cut \in Positions(json, "str") }

\* complete answers whose response is cut inside the JSON object
TruncatedDocuments ==
    UNION { { Document(d.preamble, d.fields, d.scores, d.reasoning, <<>>, c[1], c[2]) :
                c \in CutsOf(d) } :
            d \in { w \in WholeDocuments :
                      /\ w.preamble \in {<<>>, PlainPreamble}
                      /\ w.fields \in {<<"scores", "reasoning">>, <<"reasoning", "scores">>}
                      /\ w.scores \in {AllSevens, Reversed(AllSevens)}
                      /\ w.reasoning # <<>>
                      /\ w.postamble = <<>> } }

Documents == WholeDocuments \cup TruncatedDocuments

Evaluators == {"deepseek_reasoner", "claude_thinking", "o3", "other_judge"}

NoMetadata == <<>>

SampleMetadata ==
    << Member("model", "deepseek-reasoner"),
       Member("provider", "deepseek"),
       Member("has_reasoning", "True"),
       Member("reasoning_content", "chain of thought"),
       Member("response_time", "2.5") >>

----------------------------------------------------------------------------
(* The parser as a state machine: runs on one response while the clock moves *)

ParserInit ==
    /\ document \in Documents
    /\ response_text = Render(document)
    /\ evaluator_id \in Evaluators
    /\ response_metadata \in {NoMetadata, SampleMetadata}
    /\ clock = 0
    /\ parse_runs = <<>>
    /\ ConsensusIdle
    /\ OrchestratorIdle
    /\ PipelineIdle
    /\ ConversationIdle
    /\ SessionIdle

\* one call _parse_evaluation_response(response, evaluator, metadata)
ParseResponse ==
    /\ Len(parse_runs) < MaxRuns
    /\ parse_runs' = Append(parse_runs,
           parse_evaluation_response(response_text, evaluator_id, response_metadata, clock))
    /\ UNCHANGED <<document, response_text, evaluator_id, response_metadata, clock>>
    /\ UNCHANGED <<consensus_vars, orchestrator_vars, pipeline_vars,
                   conversation_vars, session_vars>>

\* time passes
Tick ==
    /\ clock < MaxClock
    /\ clock' = clock + 1
    /\ UNCHANGED <<document, response_text, evaluator_id, response_metadata, parse_runs>>
    /\ UNCHANGED <<consensus_vars, orchestrator_vars, pipeline_vars,
                   conversation_vars, session_vars>>

ParserNext == ParseResponse \/ Tick

ParserSpec == ParserInit /\ [][ParserNext]_vars

----------------------------------------------------------------------------
(* Properties of _parse_evaluation_response *)

Runs == 1..Len(parse_runs)

DocFields == { document.fields[k] : k \in 1..Len(document.fields) }

DocScoreKeys == { document.scores[k].key : k \in 1..Len(document.scores) }

\* the recognized criteria the judge's scores object does not carry
AbsentCriteria == Criteria \ DocScoreKeys

\* C11: a response whose scores object lacks recognized criteria never
\* yields a record, and whenever the parser reports missing criteria the
\* reported set is exactly the recognized criteria absent from scores: no
\* key that is present and no unrecognized key is in it.
C11_MissingCriteriaFailAndAreNamed ==
    \A k \in Runs :
        /\ ("scores" \in DocFields /\ AbsentCriteria # {}) => ~parse_runs[k].returned
        /\ parse_runs[k].printed = "Missing criteria" =>
               /\ parse_runs[k].missing = AbsentCriteria
               /\ parse_runs[k].missing # {}
        /\ parse_runs[k].printed # "Missing criteria" => parse_runs[k].missing = {}

\* a response lacking two criteria and carrying an unrecognized key has been
\* parsed: no record, and the two criteria reported
C11_Witness ==
    \E k \in Runs :
        /\ "humor" \in DocScoreKeys
        /\ AbsentCriteria = {"story_progression", "emotional_journey"}
        /\ ~parse_runs[k].returned
        /\ parse_runs[k].printed = "Missing criteria"
        /\ parse_runs[k].missing = {"story_progression", "emotional_journey"}

\* the value a scores dict gives a key
ValueOf(scores, key) ==
    scores[CHOOSE k \in 1..Len(scores) : scores[k].key = key].value

\* the sum of the scores of the six recognized criteria
CriteriaTotal(scores) ==
    IntSum([k \in 1..Len(evaluation_criteria) |-> ValueOf(scores, evaluation_criteria[k])])

\* C12: every record the parser returns has overall_score equal to the
\* unweighted mean of the scores of the six recognized criteria, also when
\* the scores object carries further keys.
C12_OverallIsMeanOfSixCriteria ==
    \A k \in Runs :
        parse_runs[k].returned =>
            parse_runs[k].record.overall_score
                = Rat(CriteriaTotal(parse_runs[k].record.scores), 6)

\* the reasoning dict of a record, as the explanations of a document
ExplanationsOf(reasoning) ==
    [k \in 1..Len(reasoning.members) |->
        Explanation(reasoning.members[k].key, reasoning.members[k].val.text)]

\* the response is a well-formed JSON object, nothing before or after it,
\* with scores for the six criteria and a reasoning object
WellFormedComplete ==
    /\ document.cut = 0
    /\ document.preamble = <<>>
    /\ document.postamble = <<>>
    /\ {"scores", "reasoning"} \subseteq DocFields
    /\ AbsentCriteria = {}

\* C13: for every evaluator identifier, a well-formed JSON response with
\* scores for the six criteria and a reasoning object parses into a record
\* whose scores and reasoning are the input's, out-of-range values included.
C13_WellFormedResponseRoundTrips ==
    \A k \in Runs :
        WellFormedComplete =>
            /\ parse_runs[k].returned
            /\ parse_runs[k].record.scores = document.scores
            /\ ExplanationsOf(parse_runs[k].record.reasoning) = document.reasoning

\* C14: two runs of the parser on the same text, evaluator and metadata
\* return records equal in every field, whatever happens between the runs.
C14_TwoRunsGiveEqualRecords ==
    \A j \in Runs : \A k \in Runs :
        (parse_runs[j].returned /\ parse_runs[k].returned) =>
            parse_runs[j].record = parse_runs[k].record

\* the response text has the key with this number as its value
Wrote(text, entry) ==
    \E i \in 1..(Len(text) - 2) :
        /\ text[i] = Key(entry.key)
        /\ text[i + 1].t = "colon"
        /\ text[i + 2] = Num(entry.value)

\* C15: from a response cut off inside its JSON object the parser returns
\* no record or a record whose every score the judge wrote in the response;
\* never a record with a score the judge did not write.
C15_TruncationNeverInventsAScore ==
    \A k \in Runs :
        (document.cut > 0 /\ parse_runs[k].returned) =>
            \A e \in 1..Len(parse_runs[k].record.scores) :
                Wrote(response_text, parse_runs[k].record.scores[e])

\* a deepseek_reasoner response that ends right after the key of the last
\* criterion, scores being the last field, has been parsed: no record
C15_Witness ==
    /\ evaluator_id = "deepseek_reasoner"
    /\ document.cut > 0
    /\ document.fields = <<"reasoning", "scores">>
    /\ response_text[Len(response_text)] = Key("character_authenticity")
    /\ Len(document.scores) = 6
    /\ document.scores[6].key = "character_authenticity"
    /\ Len(parse_runs) > 0
    /\ ~parse_runs[1].returned

----------------------------------------------------------------------------
(* evaluate_conversation_sync: the loop over the judges *)

\* judges in one call
MaxProviders == 3

\* what the judge-call interface does with one call: it raises, or returns
\* the response text and its metadata
Raised == [raised |-> TRUE, content |-> <<>>, metadata |-> <<>>]

Replied(content, meta) == [raised |-> FALSE, content |-> content, metadata |-> meta]

GoodDocument ==
    Document(<<>>, <<"scores", "reasoning">>, ScoresOfValues(<<12, 7, 7, 0, 7, 10>>),
             <<Explanation("character_immersion", <<Str("stays in role", 120)>>)>>,
             <<>>, 0, FALSE)

IncompleteDocument ==
    Document(<<>>, <<"scores", "reasoning">>,
             Without(AllSevens, {"character_authenticity"}), <<>>, <<>>, 0, FALSE)

\* the replies a call can get: an exception, a response that parses, one
\* that lacks a criterion, and one without JSON
JudgeReplies ==
    { Raised,
      Replied(Render(GoodDocument), SampleMetadata),
      Replied(Render(IncompleteDocument), NoMetadata),
      Replied(<<Word("I cannot evaluate this", 22)>>, NoMetadata) }

\* a loop body in which a judge's exception empties the results
SyncStepClearing(results, provider, reply, now) ==
    IF reply.raised THEN <<>>
    ELSE LET run == parse_evaluation_response(reply.content, provider, reply.metadata, now)
         IN  IF run.returned THEN DictSet(results, provider, run.record) ELSE results

\* the body of the loop for one provider: the results dict after it
SyncStep(results, provider, reply, now) ==
    IF reply.raised THEN results
    ELSE LET run == parse_evaluation_response(reply.content, provider, reply.metadata, now)
         IN  IF run.returned THEN DictSet(results, provider, run.record) ELSE results

\* a loop that stays on a judge that failed
NextEntryRetrying(position, results_before, results_after) ==
    IF results_after = results_before THEN position ELSE position + 1

\* for provider in providers: the loop goes on to the next entry
NextEntry(position, results_before, results_after) == position + 1

\* the lists of judges: every list of at most MaxProviders known judges
RECURSIVE ListsOver(_, _)
ListsOver(S, n) ==
    IF n = 0 THEN { <<>> }
    ELSE ListsOver(S, n - 1)
            \cup { Append(l, x) : l \in { m \in ListsOver(S, n - 1) : Len(m) = n - 1 }, x \in S }

ProviderLists ==
    ListsOver({ EvaluationProviders[k] : k \in 1..Len(EvaluationProviders) }, MaxProviders)

OrchestratorInit ==
    /\ sync_providers \in ProviderLists
    /\ sync_position = 0
    /\ sync_results = <<>>
    /\ judge_calls = <<>>
    /\ sync_state = "running"
    /\ ConsensusIdle
    /\ ParserIdle
    /\ PipelineIdle
    /\ ConversationIdle
    /\ SessionIdle

\* one pass of the loop: the judge is called, its response parsed, and the
\* record, if any, stored under the judge's name
CallJudge(reply) ==
    /\ sync_state = "running"
    /\ sync_position < Len(sync_providers)
    /\ judge_calls' = Append(judge_calls,
           [entry |-> sync_position + 1,
            provider |-> sync_providers[sync_position + 1],
            reply |-> reply])
    /\ sync_results' = SyncStep(sync_results, sync_providers[sync_position + 1], reply, clock)
    /\ sync_position' = NextEntry(sync_position, sync_results, sync_results')
    /\ UNCHANGED <<sync_providers, sync_state>>
    /\ UNCHANGED <<consensus_vars, parser_vars, pipeline_vars,
                   conversation_vars, session_vars>>

\* return results, the list being exhausted
ReturnResults ==
    /\ sync_state = "running"
    /\ sync_position >= Len(sync_providers)
    /\ sync_state' = "returned"
    /\ UNCHANGED <<sync_providers, sync_position, sync_results, judge_calls>>
    /\ UNCHANGED <<consensus_vars, parser_vars, pipeline_vars,
                   conversation_vars, session_vars>>

OrchestratorNext ==
    \/ \E reply \in JudgeReplies : CallJudge(reply)
    \/ ReturnResults

OrchestratorSpec == OrchestratorInit /\ [][OrchestratorNext]_vars

----------------------------------------------------------------------------
(* Properties of evaluate_conversation_sync *)

\* the call of this entry returned and its response parsed into a record
Succeeded(call) ==
    /\ ~call.reply.raised
    /\ parse_evaluation_response(call.reply.content, call.provider,
                                 call.reply.metadata, clock).returned

SucceededJudges ==
    { judge_calls[k].provider : k \in { j \in 1..Len(judge_calls) : Succeeded(judge_calls[j]) } }

\* C16: whatever each judge's outcome, the call goes through the whole list
\* and returns a mapping whose keys are exactly the judges whose call
\* returned a response that parsed; a failure neither ends the loop nor
\* removes a record.
C16_KeysAreTheSuccessfulJudges ==
    /\ DictKeys(sync_results) = SucceededJudges
    /\ sync_state = "returned" =>
           { judge_calls[k].entry : k \in 1..Len(judge_calls) } = 1..Len(sync_providers)

\* a call has returned in which one judge raised, one gave a response that
\* does not parse and one succeeded after them
C16_Witness ==
    /\ sync_state = "returned"
    /\ Len(judge_calls) = 3
    /\ judge_calls[1].reply.raised
    /\ ~judge_calls[2].reply.raised /\ ~Succeeded(judge_calls[2])
    /\ Succeeded(judge_calls[3])
    /\ judge_calls[1].provider = "deepseek_reasoner"
    /\ judge_calls[3].provider = "o3"
    /\ DictKeys(sync_results) = {"o3"}

\* C17: the judge-call interface is called once for each entry of the list,
\* in list order: the k-th call is for the k-th entry, and when the call
\* returns there have been as many calls as entries.
C17_OneCallPerEntryInOrder ==
    /\ Len(judge_calls) <= Len(sync_providers)
    /\ \A k \in 1..Len(judge_calls) :
           /\ judge_calls[k].entry = k
           /\ judge_calls[k].provider = sync_providers[k]
    /\ sync_state = "returned" => Len(judge_calls) = Len(sync_providers)

\* a call has returned after two failures in a row: two calls were made
C17_Witness ==
    /\ sync_state = "returned"
    /\ Len(sync_providers) = 2
    /\ Len(judge_calls) = 2
    /\ ~Succeeded(judge_calls[1])
    /\ ~Succeeded(judge_calls[2])

----------------------------------------------------------------------------
(* The evaluation pipeline: execute_evaluation, its pool of jobs, and main *)

\* test cases of a batch, and threads of the pool
MaxJobs == 2
MaxWorkers == 2

\* an identifier is a sequence of words; written out, its words are joined
\* by underscores
CharacterIds == { <<"marco">>, <<"nobody">> }

ScenarioIds == { <<"seeking", "guidance">>, <<"crisis", "response">> }

\* the identifiers character_manager.get_character and scenarios.get_scenario
\* have data for
KnownCharacters == { <<"marco">> }

KnownScenarios == ScenarioIds

bots_ai == <<"deepseek">>

SessionId == <<"nightly">>

\* the arguments of execute_evaluation
Batches ==
    { [characters |-> c, scenarios |-> s, max_workers |-> w, progress |-> p] :
        c \in ListsOver(CharacterIds, MaxJobs), s \in ListsOver(ScenarioIds, MaxJobs),
        w \in 1..MaxWorkers, p \in BOOLEAN }

\* for character_id in characters: for scenario_id in scenarios
TestCases(b) ==
    [k \in 1..(Len(b.characters) * Len(b.scenarios)) |->
        << b.characters[((k - 1) \div Len(b.scenarios)) + 1],
           b.scenarios[((k - 1) % Len(b.scenarios)) + 1] >>]

Jobs == 1..Len(TestCases(batch))

\* f"{session_id}_{character_id}_{scenario_id}_{bots_ai}"
ConversationId(session_id, character_id, scenario_id) ==
    session_id \o character_id \o scenario_id \o bots_ai

NoSummary == [total_evaluations |-> 0, successful_evaluations |-> 0, failed_evaluations |-> 0]

NoConsensus == <<>>

\* a call on results_manager: the method, the key written, the job calling
\* (0: the main thread), whether it returned, the session summary and the
\* consensus given to it
StorageCall(op, key, job, ok, summary, consensus) ==
    [op |-> op, key |-> key, job |-> job, ok |-> ok, summary |-> summary,
     consensus |-> consensus]

\* the dict a job returns; a key the dict does not have is empty here
JobResult(character_id, scenario_id, status, error, conversation_id, record, consensus, evaluation) ==
    [ character_id |-> character_id,
      scenario_id |-> scenario_id,
      status |-> status,
      error |-> error,
      conversation_id |-> conversation_id,
      overall_score |-> record.overall_score,
      scores |-> record.scores,
      confidence |-> record.confidence,
      evaluators_used |-> [k \in 1..Len(evaluation) |-> evaluation[k].key],
      consensus |-> consensus,
      evaluation_results |-> evaluation,
      session_id |-> <<>> ]

Failed(character_id, scenario_id, status, error, conversation_id) ==
    JobResult(character_id, scenario_id, status, error, conversation_id,
              NullRecord, NoConsensus, <<>>)

\* what the collaborators of a job do: the conversation generator raises or
\* gives a conversation (valid or not), each storage call returns or raises,
\* the judge replies
JobChoice(generation, conversation_stored, reply, evaluation_stored) ==
    [ generation |-> generation, conversation_stored |-> conversation_stored,
      reply |-> reply, evaluation_stored |-> evaluation_stored ]

\* the judge's reply when the job does not get as far as the judge
Unasked == Raised

\* one choice for each way through the job
JobChoices ==
    { JobChoice("raises", FALSE, Unasked, FALSE),
      JobChoice("invalid", FALSE, Unasked, FALSE),
      JobChoice("valid", FALSE, Unasked, FALSE) }
        \cup { JobChoice("valid", TRUE, reply, TRUE) : reply \in JudgeReplies }
        \cup { JobChoice("valid", TRUE, Replied(Render(GoodDocument), SampleMetadata), FALSE) }

\* an inline analysis that claims no agreement for a single record
InlineConsensusWithoutAgreement(deepseek_result) ==
    ConsensusAnalysis(deepseek_result.scores, deepseek_result.overall_score,
                      Zero, <<>>, deepseek_result.confidence, <<>>, <<>>)

\* the inline ConsensusAnalysis of a single record
InlineConsensus(deepseek_result) ==
    ConsensusAnalysis(deepseek_result.scores, deepseek_result.overall_score,
                      One, <<>>, deepseek_result.confidence, <<>>, <<>>)

\* what a job returns: its dict and the storage calls it made
JobReturn(result, calls) == [result |-> result, calls |-> calls]

\* _evaluate_character_scenario once evaluate_conversation_sync has given
\* (or would give) the mapping judged
JobBody(job, character_id, scenario_id, conversation_id, choice, judged) ==
    LET store_conversation ==
            StorageCall("store_conversation", conversation_id, job,
                        choice.conversation_stored, NoSummary, NoConsensus)
        store_evaluation ==
            StorageCall("store_evaluation_results", conversation_id, job,
                        choice.evaluation_stored, NoSummary,
                        InlineConsensus(DictGet(judged, "deepseek_reasoner")))
    IN  IF character_id \notin KnownCharacters \/ scenario_id \notin KnownScenarios
        THEN JobReturn(Failed(character_id, scenario_id, "failed",
                              "Missing character or scenario data", <<>>), <<>>)
        ELSE IF choice.generation = "raises"
        THEN JobReturn(Failed(character_id, scenario_id, "failed", "str(e)", <<>>), <<>>)
        ELSE IF choice.generation = "invalid"
        THEN JobReturn(Failed(character_id, scenario_id, "failed",
                              "Conversation validation failed", <<>>), <<>>)
        ELSE IF ~choice.conversation_stored
        THEN JobReturn(Failed(character_id, scenario_id, "failed", "str(e)", <<>>),
                       <<store_conversation>>)
        ELSE IF judged = <<>>
        THEN JobReturn(Failed(character_id, scenario_id, "evaluation_failed",
                              "No evaluation results received", conversation_id),
                       <<store_conversation>>)
        ELSE IF ~choice.evaluation_stored
        THEN JobReturn(Failed(character_id, scenario_id, "failed", "str(e)", <<>>),
                       <<store_conversation, store_evaluation>>)
        ELSE JobReturn(JobResult(character_id, scenario_id, "completed", "",
                                 conversation_id, DictGet(judged, "deepseek_reasoner"),
                                 InlineConsensus(DictGet(judged, "deepseek_reasoner")),
                                 judged),
                       <<store_conversation, store_evaluation>>)

\* _evaluate_character_scenario: the one judge is deepseek_reasoner
evaluate_character_scenario(job, character_id, scenario_id, session_id, choice, now) ==
    JobBody(job, character_id, scenario_id,
            ConversationId(session_id, character_id, scenario_id), choice,
            SyncStep(<<>>, "deepseek_reasoner", choice.reply, now))

\* [r for r in results if r.get("status") == "completed"]
Successful(results) == SelectSeq(results, LAMBDA r : r.status = "completed")

\* the session summary of execute_evaluation
SessionSummary(results) ==
    [ total_evaluations |-> Len(results),
      successful_evaluations |-> Len(Successful(results)),
      failed_evaluations |-> Len(results) - Len(Successful(results)) ]

\* a main that exits 0 as soon as one evaluation was completed
ExitCodeOfAnySuccess(results) ==
    IF Len(Successful(results)) > 0 THEN 0 ELSE 1

\* main: sys.exit(0) if successful_count == len(results), else sys.exit(1)
ExitCodeOf(results) ==
    IF Len(Successful(results)) = Len(results) THEN 0 ELSE 1

\* a collector that keeps no entry for a job that failed
CollectIntoUnlessFailed(results, result) ==
    IF result.status = "failed" THEN results ELSE Append(results, result)

\* results.append(result)
CollectInto(results, result) == Append(results, result)

----------------------------------------------------------------------------
(* The pipeline as a state machine *)

PipelineInit ==
    /\ batch \in { b \in Batches : Len(TestCases(b)) <= MaxJobs }
    /\ pipeline_pc = "main"
    /\ job_phase = <<>>
    /\ job_choice = <<>>
    /\ job_result = <<>>
    /\ finished_early = {}
    /\ finished_queue = <<>>
    /\ completion_order = <<>>
    /\ collected_order = <<>>
    /\ pool_results = <<>>
    /\ callbacks = <<>>
    /\ storage_calls = <<>>
    /\ exit_code = -1
    /\ ConsensusIdle
    /\ ParserIdle
    /\ OrchestratorIdle
    /\ ConversationIdle
    /\ SessionIdle

NoChoice ==
    [generation |-> "", conversation_stored |-> FALSE, reply |-> Raised,
     evaluation_stored |-> FALSE]

NoResult == Failed(<<>>, <<>>, "", "", <<>>)

\* the dict the first callback is given: it names the session created
SessionCreated == Failed(<<>>, <<>>, "session_created", "", <<>>)

\* progress_callback(completed_count, len(test_cases), result)
Callback(completed_count, total, result) ==
    [completed_count |-> completed_count, total |-> total, result |-> result]

Running == { j \in 1..Len(job_phase) : job_phase[j] = "running" }

Queued == { j \in 1..Len(job_phase) : job_phase[j] = "queued" }

\* execute_evaluation up to the submission of the jobs: the session is
\* started (the call may raise), the callback told, every test case submitted
StartEvaluation(started) ==
    /\ pipeline_pc = "main"
    /\ storage_calls' = Append(storage_calls,
           StorageCall("start_session", SessionId, 0, started, NoSummary, NoConsensus))
    /\ IF started
       THEN /\ pipeline_pc' = "submitted"
            /\ callbacks' = IF batch.progress
                            THEN Append(callbacks, Callback(0, Len(TestCases(batch)), SessionCreated))
                            ELSE callbacks
            /\ job_phase' = [j \in Jobs |-> "queued"]
            /\ job_choice' = [j \in Jobs |-> NoChoice]
            /\ job_result' = [j \in Jobs |-> NoResult]
       ELSE /\ pipeline_pc' = "raised"
            /\ UNCHANGED <<callbacks, job_phase, job_choice, job_result>>
    /\ UNCHANGED <<batch, finished_early, finished_queue, completion_order,
                   collected_order, pool_results, exit_code>>
    /\ UNCHANGED <<consensus_vars, parser_vars, orchestrator_vars,
                   conversation_vars, session_vars>>

\* a thread of the pool takes the next job of the queue
JobStart(j) ==
    /\ pipeline_pc \in {"submitted", "collecting"}
    /\ j \in Queued
    /\ \A i \in Queued : j <= i
    /\ Cardinality(Running) < batch.max_workers
    /\ job_phase' = [job_phase EXCEPT ![j] = "running"]
    /\ UNCHANGED <<batch, pipeline_pc, job_choice, job_result, finished_early,
                   finished_queue, completion_order, collected_order, pool_results,
                   callbacks, storage_calls, exit_code>>
    /\ UNCHANGED <<consensus_vars, parser_vars, orchestrator_vars,
                   conversation_vars, session_vars>>

\* a running job returns ran: its future is done
FutureDone(j, choice, ran) ==
    /\ pipeline_pc \in {"submitted", "collecting"}
    /\ j \in Running
    /\ job_phase' = [job_phase EXCEPT ![j] = "ended"]
    /\ job_choice' = [job_choice EXCEPT ![j] = choice]
    /\ job_result' = [job_result EXCEPT ![j] = ran.result]
    /\ storage_calls' = storage_calls \o ran.calls
    /\ IF pipeline_pc = "submitted"
       THEN finished_early' = finished_early \cup {j} /\ UNCHANGED finished_queue
       ELSE finished_queue' = Append(finished_queue, j) /\ UNCHANGED finished_early
    /\ completion_order' = Append(completion_order,
                                  [job |-> j, early |-> pipeline_pc = "submitted"])
    /\ UNCHANGED <<batch, pipeline_pc, collected_order, pool_results, callbacks, exit_code>>
    /\ UNCHANGED <<consensus_vars, parser_vars, orchestrator_vars,
                   conversation_vars, session_vars>>

\* _evaluate_character_scenario runs to its return
JobEnd(j, choice) ==
    FutureDone(j, choice,
               evaluate_character_scenario(j, TestCases(batch)[j][1], TestCases(batch)[j][2],
                                           SessionId, choice, clock))

\* as_completed(future_to_case) takes over: the futures done by now come
\* first, in no particular order
EnterCollect ==
    /\ pipeline_pc = "submitted"
    /\ pipeline_pc' = "collecting"
    /\ UNCHANGED <<batch, job_phase, job_choice, job_result, finished_early,
                   finished_queue, completion_order, collected_order, pool_results,
                   callbacks, storage_calls, exit_code>>
    /\ UNCHANGED <<consensus_vars, parser_vars, orchestrator_vars,
                   conversation_vars, session_vars>>

\* an as_completed that yields the done futures in any order
AsCompletedAnyDone(early, queue) == early \cup { queue[k] : k \in 1..Len(queue) }

\* as_completed: the futures it may yield next. Those done when it was called
\* are kept in a set and come first; the ones done later come in the order
\* they were done
AsCompleted(early, queue) ==
    IF early # {} THEN early
    ELSE IF queue # <<>> THEN {Head(queue)}
    ELSE {}

\* one pass of the collecting loop: the result of a finished future is
\* appended and the callback told (the job body catches every Exception, so
\* future.result() returns)
Collect(j) ==
    /\ pipeline_pc = "collecting"
    /\ j \in AsCompleted(finished_early, finished_queue)
    /\ pool_results' = CollectInto(pool_results, job_result[j])
    /\ callbacks' = IF batch.progress
                    THEN Append(callbacks,
                                Callback(Len(pool_results) + 1, Len(TestCases(batch)),
                                         job_result[j]))
                    ELSE callbacks
    /\ IF j \in finished_early
       THEN finished_early' = finished_early \ {j} /\ UNCHANGED finished_queue
       ELSE /\ finished_queue' = SelectSeq(finished_queue, LAMBDA i : i # j)
            /\ UNCHANGED finished_early
    /\ collected_order' = Append(collected_order, j)
    /\ UNCHANGED <<batch, pipeline_pc, job_phase, job_choice, job_result,
                   completion_order, storage_calls, exit_code>>
    /\ UNCHANGED <<consensus_vars, parser_vars, orchestrator_vars,
                   conversation_vars, session_vars>>

\* a loop that is through as soon as no done future waits for it
NoneWaiting ==
    /\ finished_early = {}
    /\ finished_queue = <<>>

\* the collecting loop is exhausted: every future was done and yielded
AllCollected ==
    /\ \A j \in 1..Len(job_phase) : job_phase[j] = "ended"
    /\ finished_early = {}
    /\ finished_queue = <<>>

\* the pool is through: the summary is made, complete_session called (it may
\* raise), the session id put into every result, and the results returned
CompleteEvaluation(completed) ==
    /\ pipeline_pc = "collecting"
    /\ AllCollected
    /\ storage_calls' = Append(storage_calls,
           StorageCall("complete_session", SessionId, 0, completed,
                       SessionSummary(pool_results), NoConsensus))
    /\ IF completed
       THEN /\ pipeline_pc' = "returned"
            /\ pool_results' = [k \in 1..Len(pool_results) |->
                                   [pool_results[k] EXCEPT !.session_id = SessionId]]
       ELSE /\ pipeline_pc' = "raised"
            /\ UNCHANGED pool_results
    /\ UNCHANGED <<batch, job_phase, job_choice, job_result, finished_early,
                   finished_queue, completion_order, collected_order, callbacks,
                   exit_code>>
    /\ UNCHANGED <<consensus_vars, parser_vars, orchestrator_vars,
                   conversation_vars, session_vars>>

\* main after execute_evaluation: the exit code from the results, or 1 from
\* the handler of the exception
MainExit ==
    /\ pipeline_pc \in {"returned", "raised"}
    /\ exit_code' = IF pipeline_pc = "returned" THEN ExitCodeOf(pool_results) ELSE 1
    /\ pipeline_pc' = "exited"
    /\ UNCHANGED <<batch, job_phase, job_choice, job_result, finished_early,
                   finished_queue, completion_order, collected_order, pool_results,
                   callbacks, storage_calls>>
    /\ UNCHANGED <<consensus_vars, parser_vars, orchestrator_vars,
                   conversation_vars, session_vars>>

PipelineNext ==
    \/ \E started \in BOOLEAN : StartEvaluation(started)
    \/ \E j \in 1..Len(job_phase) : JobStart(j)
    \/ \E j \in 1..Len(job_phase) : \E choice \in JobChoices : JobEnd(j, choice)
    \/ EnterCollect
    \/ \E j \in 1..Len(job_phase) : Collect(j)
    \/ \E completed \in BOOLEAN : CompleteEvaluation(completed)
    \/ MainExit

PipelineSpec == PipelineInit /\ [][PipelineNext]_vars

----------------------------------------------------------------------------
(* Properties of the pipeline *)

Ended == { j \in 1..Len(job_phase) : job_phase[j] = "ended" }

HasData(j) ==
    /\ TestCases(batch)[j][1] \in KnownCharacters
    /\ TestCases(batch)[j][2] \in KnownScenarios

\* the job got as far as asking its judge
AskedJudge(j) ==
    /\ HasData(j)
    /\ job_choice[j].generation = "valid"
    /\ job_choice[j].conversation_stored

\* the one judge of the job gave a record
JudgeGaveRecord(j) ==
    /\ ~job_choice[j].reply.raised
    /\ parse_evaluation_response(job_choice[j].reply.content, "deepseek_reasoner",
                                 job_choice[j].reply.metadata, clock).returned

EveryJudgeFailed(j) == AskedJudge(j) /\ ~JudgeGaveRecord(j)

NotCompleted(results) == { k \in 1..Len(results) : results[k].status # "completed" }

\* the result of job j is entry k of the results list
IsResultOf(k, j) ==
    /\ pool_results[k].character_id = job_result[j].character_id
    /\ pool_results[k].scenario_id = job_result[j].scenario_id
    /\ pool_results[k].status = job_result[j].status
    /\ pool_results[k].conversation_id = job_result[j].conversation_id

\* C19: a job all of whose judges failed returns status evaluation_failed
\* and no consensus, makes no store_evaluation_results call, is among the
\* failed_evaluations of the summary given to complete_session, and the
\* process does not exit with code 0.
C19_AllJudgesFailedIsAFailure ==
    \A j \in Ended :
        EveryJudgeFailed(j) =>
            /\ job_result[j].status = "evaluation_failed"
            /\ job_result[j].consensus = NoConsensus
            /\ job_result[j].evaluation_results = <<>>
            /\ \A k \in 1..Len(storage_calls) :
                   storage_calls[k].op = "store_evaluation_results" =>
                       storage_calls[k].job # j
            /\ \A k \in 1..Len(storage_calls) :
                   storage_calls[k].op = "complete_session" =>
                       /\ storage_calls[k].summary.failed_evaluations
                              = Cardinality(NotCompleted(pool_results))
                       /\ \E r \in NotCompleted(pool_results) : IsResultOf(r, j)
            /\ exit_code # 0
            /\ pipeline_pc = "exited" => exit_code = 1

\* the process has exited after a batch in which the judge failed for one
\* job and the other job was completed
C19_Witness ==
    /\ pipeline_pc = "exited"
    /\ exit_code = 1
    /\ Len(pool_results) = 2
    /\ \E j \in Ended : EveryJudgeFailed(j) /\ ~job_choice[j].reply.raised
    /\ \E k \in 1..Len(pool_results) : pool_results[k].status = "completed"
    /\ \E k \in 1..Len(storage_calls) :
           /\ storage_calls[k].op = "complete_session"
           /\ storage_calls[k].ok
           /\ storage_calls[k].summary.failed_evaluations = 1

\* every test case has been submitted and the collecting loop is through
PoolThrough == Len(job_phase) = Len(TestCases(batch)) /\ AllCollected

PairsOf(cases) == { cases[k] : k \in 1..Len(cases) }

\* the collaborators of the job all did their part
OwnWorkDone(j) ==
    /\ AskedJudge(j)
    /\ JudgeGaveRecord(j)
    /\ job_choice[j].evaluation_stored

JobKey(j) == ConversationId(SessionId, TestCases(batch)[j][1], TestCases(batch)[j][2])

StoreCalls ==
    { k \in 1..Len(storage_calls) :
        storage_calls[k].op \in {"store_conversation", "store_evaluation_results"} }

\* C21: within one batch the conversation identifiers of any two submitted
\* jobs differ, for every list of characters and scenarios passed in, so no
\* two jobs make the same storage call under the same key.
C21_NoTwoJobsShareAKey ==
    /\ \A i, j \in 1..Len(job_phase) : i # j => JobKey(i) # JobKey(j)
    /\ \A a, b \in StoreCalls :
           (storage_calls[a].op = storage_calls[b].op
                /\ storage_calls[a].key = storage_calls[b].key)
               => storage_calls[a].job = storage_calls[b].job

\* the place of job j in a sequence of jobs (0: not in it)
PlaceIn(order, j) ==
    IF \E k \in 1..Len(order) : order[k] = j
    THEN CHOOSE k \in 1..Len(order) : order[k] = j
    ELSE 0

EndedOrder == [k \in 1..Len(completion_order) |-> completion_order[k].job]

EndedEarly ==
    { completion_order[k].job :
        k \in { i \in 1..Len(completion_order) : completion_order[i].early } }

\* the callbacks of the collecting loop
LoopCallbacks == SelectSeq(callbacks, LAMBDA c : c.result.status # "session_created")

\* entry k of the results list is what the k-th collected job returned, and
\* callback k was given it with count k
ResultsAndCallbacksFollowCollection ==
    /\ Len(pool_results) = Len(collected_order)
    /\ \A k \in 1..Len(pool_results) : IsResultOf(k, collected_order[k])
    /\ \A j \in 1..Len(job_phase) :
           Cardinality({ k \in 1..Len(collected_order) : collected_order[k] = j }) <= 1
    /\ batch.progress =>
           /\ Len(LoopCallbacks) = Len(collected_order)
           /\ \A k \in 1..Len(LoopCallbacks) :
                  /\ LoopCallbacks[k].completed_count = k
                  /\ LoopCallbacks[k].total = Len(TestCases(batch))
                  /\ LoopCallbacks[k].result = job_result[collected_order[k]]
    /\ ~batch.progress => callbacks = <<>>
    /\ PoolThrough => Len(collected_order) = Len(TestCases(batch))

CallsOf(op) == { k \in 1..Len(storage_calls) : storage_calls[k].op = op }

\* C27: the session is started before any job is submitted; complete_session
\* is called at most once, exactly once when execute_evaluation returns, and
\* only when the result of every job has been collected; it is the last call
\* on the storage, so no job stores a conversation or an evaluation after it.
C27_SessionBracketsTheJobs ==
    /\ job_phase # <<>> =>
           /\ storage_calls # <<>>
           /\ storage_calls[1].op = "start_session"
           /\ storage_calls[1].ok
    /\ CallsOf("start_session") \subseteq {1}
    /\ Cardinality(CallsOf("complete_session")) <= 1
    /\ pipeline_pc = "returned" => Cardinality(CallsOf("complete_session")) = 1
    /\ \A k \in CallsOf("complete_session") :
           /\ k = Len(storage_calls)
           /\ Len(job_phase) = Len(TestCases(batch))
           /\ \A j \in 1..Len(job_phase) : job_phase[j] = "ended"
           /\ Len(collected_order) = Len(TestCases(batch))
           /\ storage_calls[k].summary.total_evaluations = Len(TestCases(batch))

\* execute_evaluation has returned after two jobs that both stored their
\* conversation and their evaluation
C27_Witness ==
    /\ pipeline_pc = "returned"
    /\ Len(pool_results) = 2
    /\ Cardinality(CallsOf("store_evaluation_results")) = 2
    /\ Cardinality(CallsOf("store_conversation")) = 2
    /\ storage_calls[Len(storage_calls)].op = "complete_session"
    /\ storage_calls[Len(storage_calls)].ok

\* calculate_consensus on a mapping of fewer than two records, the records
\* being those of the parser: single_result = list(values())[0]
SingleRecordConsensus(judged) ==
    LET single_result == judged[1].val
    IN  [ consensus_scores    |-> single_result.scores,
          overall_consensus   |-> single_result.overall_score,
          agreement_level     |-> One,
          disagreements       |-> <<>>,
          confidence_level    |-> single_result.confidence,
          outlier_evaluations |-> <<>>,
          actionable_insights |-> <<>> ]

AnalysisFields ==
    { "consensus_scores", "overall_consensus", "agreement_level", "disagreements",
      "confidence_level", "outlier_evaluations", "actionable_insights" }

SameAnalysis(a, b) ==
    /\ DOMAIN a = AnalysisFields
    /\ DOMAIN b = AnalysisFields
    /\ \A f \in AnalysisFields : a[f] = b[f]

\* C26: for every completed job the ConsensusAnalysis built inline, returned
\* and given to store_evaluation_results equals, field by field, what
\* calculate_consensus returns for the job's single-record result mapping.
C26_InlineConsensusIsCalculateConsensus ==
    \A j \in Ended :
        /\ job_result[j].status = "completed" =>
               /\ Len(job_result[j].evaluation_results) = 1
               /\ SameAnalysis(job_result[j].consensus,
                               SingleRecordConsensus(job_result[j].evaluation_results))
        /\ \A k \in CallsOf("store_evaluation_results") :
               (storage_calls[k].job = j /\ job_result[j].status = "completed") =>
                   SameAnalysis(storage_calls[k].consensus,
                                SingleRecordConsensus(job_result[j].evaluation_results))

\* a job was completed and its evaluation stored
C26_Witness ==
    \E j \in Ended :
        /\ job_result[j].status = "completed"
        /\ job_result[j].consensus.agreement_level = One
        /\ job_result[j].consensus.confidence_level = job_result[j].confidence
        /\ \E k \in CallsOf("store_evaluation_results") :
               storage_calls[k].job = j /\ storage_calls[k].ok

----------------------------------------------------------------------------
(* The deepseek_reasoner branch against the default branch *)

\* the outcome of a run but for the evaluator name the record carries
ButForEvaluator(run) == [run EXCEPT !.record.evaluator = ""]

\* C24: for every response text the span extracted for deepseek_reasoner
\* ends with a closing brace, so the repair is never applied, the span is the
\* one the default branch extracts, and a run as deepseek_reasoner has the
\* outcome of a run of the same text through the default branch.
C24_DeepseekRepairIsNeverApplied ==
    Len(parse_runs) > 0 =>
        /\ GreedyBraceSpan(response_text).found
               => EndsWithBrace(GreedyBraceSpan(response_text).content)
        /\ DeepseekJsonContent(response_text) = DefaultJsonContent(response_text)
        /\ \A k \in Runs :
               evaluator_id = "deepseek_reasoner" =>
                   ButForEvaluator(parse_runs[k])
                       = ButForEvaluator(
                             parse_evaluation_response(response_text, "other_judge",
                                 response_metadata, parse_runs[k].record.timestamp))

\* a deepseek_reasoner response cut off after an inner object was closed has
\* been parsed: the text does not end with a brace, the span does
C24_Witness ==
    /\ evaluator_id = "deepseek_reasoner"
    /\ Len(parse_runs) > 0
    /\ document.cut > 0
    /\ ~EndsWithBrace(response_text)
    /\ GreedyBraceSpan(response_text).found
    /\ Len(GreedyBraceSpan(response_text).content) < Len(response_text)

----------------------------------------------------------------------------
(* Two records *)

EvaluatorsOf(results) == [i \in 1..Len(results) |-> results[i].evaluator]

\* C25: with exactly two records each consensus score is the midpoint of
\* the two scores, both evaluators deviate from it by the same amount on
\* every criterion, and outlier_evaluations is empty or names both.
C25_TwoRecordsBothOrNeitherOutlier ==
    (outcome = "returned" /\ N = 2) =>
        /\ \A c \in Criteria :
               /\ analysis.consensus_scores[c]
                      = Rat(evaluation_results[1].scores[c] + evaluation_results[2].scores[c], 2)
               /\ RatAbsDiff(Rat(evaluation_results[1].scores[c], 1), analysis.consensus_scores[c])
                      = RatAbsDiff(Rat(evaluation_results[2].scores[c], 1), analysis.consensus_scores[c])
        /\ analysis.outlier_evaluations \in {<<>>, EvaluatorsOf(evaluation_results)}

\* two records three points either side of the midpoint on every criterion:
\* both evaluators are flagged
C25_Witness ==
    /\ outcome = "returned"
    /\ N = 2
    /\ \A c \in Criteria : evaluation_results[1].scores[c] = 3
    /\ \A c \in Criteria : evaluation_results[2].scores[c] = 9
    /\ Len(analysis.outlier_evaluations) = 2

----------------------------------------------------------------------------
(* Conversation: the message history *)

\* add_message calls of a caller other than the generator, and the
\* max_history values such a caller constructs a Conversation with
MaxAdded == 4
MaxHistory == 3

\* max_history: int = 10
default_max_history == 10

\* (role, content, timestamp); the timestamp is the number of the call
Message(role, content, timestamp) ==
    [role |-> role, content |-> content, timestamp |-> timestamp]

\* a text: what it is, len(text), whether it starts with "error" (any case),
\* and text.count("...")
Text(kind, length, error, ellipses) ==
    [kind |-> kind, length |-> length, error |-> error, ellipses |-> ellipses]

\* list[start:] of Python: a negative start counts from the end, and both
\* ends are clamped
SliceFrom(list, start) ==
    LET from == IF start < 0
                THEN (IF Len(list) + start < 0 THEN 0 ELSE Len(list) + start)
                ELSE (IF start > Len(list) THEN Len(list) ELSE start)
    IN  SubSeq(list, from + 1, Len(list))

\* list[-count:]
LastOf(list, count) == SliceFrom(list, 0 - count)

\* add_message: self.messages after the call
add_message(history, limit, message) ==
    LET appended == Append(history, message)
    IN  IF Len(appended) > limit THEN LastOf(appended, limit) ELSE appended

\* get_last_messages(count)
get_last_messages(history, count) == LastOf(history, count)

----------------------------------------------------------------------------
(* ConversationGenerator.generate *)

\* the largest target_exchanges of a scenario
MaxTargetExchanges == 14

TargetExchanges == 0..MaxTargetExchanges

\* character_manager.get_character_greeting(character_id, user_name)
Greeting == Text("greeting", 60, FALSE, 0)

\* scenario_data["initial_user_message"]
ScenarioInitialMessage == Text("initial_user_message", 50, FALSE, 0)

\* what the user bot writes: a few sentences, or a word
UserResponses == { Text("user_response", 40, FALSE, 0), Text("user_response", 5, FALSE, 0) }

\* what the character's provider returns: a reply, or the text of its error
CharacterResponses ==
    { Text("character_response", 80, FALSE, 0),
      Text("Error getting chat response", 33, TRUE, 0) }

\* no text: the user bot gave nothing, or the provider is not available
NoText == Text("", 0, FALSE, 0)

Count(checks) == Cardinality({ k \in 1..Len(checks) : checks[k] })

\* _validate_conversation_quality: four of the five checks on the last exchange
validate_conversation_quality(history) ==
    LET last == get_last_messages(history, 2)
        user_msg == IF last[1].role = "user" THEN last[1].content ELSE last[2].content
        char_msg == IF last[2].role = "assistant" THEN last[2].content ELSE last[1].content
        quality_checks == << user_msg.length > 10,
                             char_msg.length > 20,
                             ~user_msg.error,
                             ~char_msg.error,
                             user_msg.ellipses = 0 \/ user_msg.ellipses < 3 >>
    IN  IF Len(last) < 2 THEN TRUE ELSE Count(quality_checks) >= 4

\* max_exchanges = target_exchanges // 2
max_exchanges == target_exchanges \div 2

Now == Len(added_messages) + 1

\* conversation.add_message(role, content)
Add(role, content) ==
    /\ messages' = add_message(messages, max_history, Message(role, content, Now))
    /\ added_messages' = Append(added_messages, Message(role, content, Now))

\* a Conversation is constructed: by generate, or by a caller of its own
ConversationInit ==
    /\ messages = <<>>
    /\ added_messages = <<>>
    /\ completion_status = "in_progress"
    /\ exchanges_completed = 0
    /\ exchange_num = 0
    /\ \/ /\ generator_pc = "greeting"
          /\ max_history = default_max_history
          /\ target_exchanges \in TargetExchanges
       \/ /\ generator_pc = "direct"
          /\ max_history \in 0..MaxHistory
          /\ target_exchanges = 0
    /\ ConsensusIdle
    /\ ParserIdle
    /\ OrchestratorIdle
    /\ PipelineIdle
    /\ SessionIdle

\* a caller adds a message
AddMessage(role, content) ==
    /\ generator_pc = "direct"
    /\ Len(added_messages) < MaxAdded
    /\ Add(role, content)
    /\ UNCHANGED <<max_history, completion_status, generator_pc, target_exchanges,
                   exchanges_completed, exchange_num>>
    /\ UNCHANGED <<consensus_vars, parser_vars, orchestrator_vars, pipeline_vars, session_vars>>

\* conversation.add_message("assistant", character_greeting)
AddGreeting ==
    /\ generator_pc = "greeting"
    /\ Add("assistant", Greeting)
    /\ generator_pc' = "introduction"
    /\ UNCHANGED <<max_history, completion_status, target_exchanges,
                   exchanges_completed, exchange_num>>
    /\ UNCHANGED <<consensus_vars, parser_vars, orchestrator_vars, pipeline_vars, session_vars>>

\* the user's answer to the greeting (the scenario's initial message when
\* the user bot gives nothing or fails)
AddIntroduction(user_response) ==
    /\ generator_pc = "introduction"
    /\ Add("user", IF user_response = NoText THEN ScenarioInitialMessage ELSE user_response)
    /\ generator_pc' = "first_reply"
    /\ UNCHANGED <<max_history, completion_status, target_exchanges,
                   exchanges_completed, exchange_num>>
    /\ UNCHANGED <<consensus_vars, parser_vars, orchestrator_vars, pipeline_vars, session_vars>>

\* range(3, max_exchanges + 1) has a further element, and the test at the
\* head of the loop body lets it through
LoopGoesOn(next_num, completed) ==
    next_num <= max_exchanges /\ ~(completed >= max_exchanges)

\* the character's answer to the introduction; get_response_sync raises when
\* the provider is not available, and generate with it
AddFirstReply(character_response) ==
    /\ generator_pc = "first_reply"
    /\ IF character_response = NoText
       THEN /\ generator_pc' = "raised"
            /\ UNCHANGED <<messages, added_messages, exchanges_completed, exchange_num>>
       ELSE /\ Add("assistant", character_response)
            /\ exchanges_completed' = 2
            /\ exchange_num' = 3
            /\ generator_pc' = IF LoopGoesOn(3, 2) THEN "user_turn" ELSE "done"
    /\ UNCHANGED <<max_history, completion_status, target_exchanges>>
    /\ UNCHANGED <<consensus_vars, parser_vars, orchestrator_vars, pipeline_vars, session_vars>>

\* the loop body up to the user's message: no response ends the loop
AddUserTurn(user_response) ==
    /\ generator_pc = "user_turn"
    /\ IF user_response = NoText
       THEN /\ generator_pc' = "done"
            /\ UNCHANGED <<messages, added_messages>>
       ELSE /\ Add("user", user_response)
            /\ generator_pc' = "character_turn"
    /\ UNCHANGED <<max_history, completion_status, target_exchanges,
                   exchanges_completed, exchange_num>>
    /\ UNCHANGED <<consensus_vars, parser_vars, orchestrator_vars, pipeline_vars, session_vars>>

\* the rest of the loop body: the character's message, the counter, the
\* quality check, and the step to the next exchange_num
AddCharacterTurn(character_response) ==
    /\ generator_pc = "character_turn"
    /\ IF character_response = NoText
       THEN /\ generator_pc' = "raised"
            /\ UNCHANGED <<messages, added_messages, exchanges_completed, exchange_num>>
       ELSE /\ Add("assistant", character_response)
            /\ exchanges_completed' = exchanges_completed + 1
            /\ IF ~validate_conversation_quality(messages')
               THEN /\ generator_pc' = "done"
                    /\ UNCHANGED exchange_num
               ELSE /\ exchange_num' = exchange_num + 1
                    /\ generator_pc' = IF LoopGoesOn(exchange_num + 1, exchanges_completed + 1)
                                       THEN "user_turn" ELSE "done"
    /\ UNCHANGED <<max_history, completion_status, target_exchanges>>
    /\ UNCHANGED <<consensus_vars, parser_vars, orchestrator_vars, pipeline_vars, session_vars>>

\* conversation.mark_complete("completed"); return conversation
ReturnConversation ==
    /\ generator_pc = "done"
    /\ completion_status' = "completed"
    /\ generator_pc' = "returned"
    /\ UNCHANGED <<max_history, messages, added_messages, target_exchanges,
                   exchanges_completed, exchange_num>>
    /\ UNCHANGED <<consensus_vars, parser_vars, orchestrator_vars, pipeline_vars, session_vars>>

ConversationNext ==
    \/ \E role \in {"user", "assistant"} : \E content \in UserResponses : AddMessage(role, content)
    \/ AddGreeting
    \/ \E user_response \in UserResponses \cup {NoText} : AddIntroduction(user_response)
    \/ \E character_response \in CharacterResponses \cup {NoText} : AddFirstReply(character_response)
    \/ \E user_response \in UserResponses \cup {NoText} : AddUserTurn(user_response)
    \/ \E character_response \in CharacterResponses \cup {NoText} : AddCharacterTurn(character_response)
    \/ ReturnConversation

ConversationSpec == ConversationInit /\ [][ConversationNext]_vars

----------------------------------------------------------------------------
(* Properties of the conversation *)

\* C23: every conversation generate returns starts with the character's
\* greeting: its first stored message has role assistant and is the
\* greeting, for every target_exchanges of the scenario.
C23_ReturnedConversationStartsWithGreeting ==
    generator_pc = "returned" =>
        /\ messages # <<>>
        /\ messages[1].role = "assistant"
        /\ messages[1].content = Greeting

Min(a, b) == IF a <= b THEN a ELSE b

\* C28: after any sequence of add_message calls the stored messages are at
\* most max_history, and they are the most recent min(n, max_history)
\* messages added, in the order they were added.
C28_HistoryIsTheMostRecentMessages ==
    generator_pc # "idle" =>
        /\ Len(messages) <= max_history
        /\ messages = SubSeq(added_messages,
                             Len(added_messages) - Min(Len(added_messages), max_history) + 1,
                             Len(added_messages))

----------------------------------------------------------------------------
(* SessionManager: the sessions index *)

\* sessions in the index at a time, and seconds of the clock
MaxSessions == 2
MaxSessionClock == 1

\* the identifier callers ask for; written out, the words of an identifier
\* are joined by underscores
RequestedIds == { <<"nightly">> }

\* create_session(session_id=None)
NoId == <<>>

\* an identifier of no session
MissingId == <<"missing">>

\* str(counter)
CounterText(counter) == <<"1", "2", "3", "4", "5", "6", "7", "8", "9">>[counter]

\* datetime.now().strftime("%Y%m%d_%H%M%S")
TimestampText(now) == <<"19700101", <<"000000", "000001", "000002", "000003">>[now + 1]>>

\* an id that takes the identifier asked for as it is
RequestedAsItIs(original_session_id, index, counter) == original_session_id

\* while session_id in self.sessions_index["sessions"]:
\*     session_id = f"{original_session_id}_{counter}"; counter += 1
RECURSIVE UniqueId(_, _, _)
UniqueId(original_session_id, index, counter) ==
    LET session_id == IF counter = 0 THEN original_session_id
                      ELSE Append(original_session_id, CounterText(counter))
    IN  IF session_id \in DictKeys(index)
        THEN UniqueId(original_session_id, index, counter + 1)
        ELSE session_id

\* the metadata of a session; a key the dict lacks is -1, FALSE or empty
SessionMetadata(session_id, created, status, evaluation_count, last_activity, completed, has_summary, additional_info) ==
    [ session_id |-> session_id,
      created |-> created,
      status |-> status,
      directory |-> session_id,
      evaluation_count |-> evaluation_count,
      last_activity |-> last_activity,
      completed |-> completed,
      has_summary |-> has_summary,
      additional_info |-> additional_info ]

\* create_session: the identifier returned and the index after the call
create_session(index, requested, now) ==
    LET session_id == UniqueId(IF requested = NoId
                               THEN <<"session">> \o TimestampText(now)
                               ELSE requested,
                               index, 0)
    IN  [ returned |-> session_id,
          index |-> DictSet(index, session_id,
                            SessionMetadata(session_id, now, "active", 0, now, -1,
                                            FALSE, <<>>)) ]

\* activity_info: None, or a dict with an evaluation count and another key
ActivityInfo(evaluation_count, others) ==
    [evaluation_count |-> evaluation_count, others |-> others]

NoInfo == ActivityInfo(-1, <<>>)

ActivityInfos ==
    { NoInfo, ActivityInfo(2, <<Member("status", "active")>>) }

\* additional_info after the loop over the other keys of activity_info
RECURSIVE WithOthers(_, _)
WithOthers(additional_info, others) ==
    IF others = <<>> THEN additional_info
    ELSE WithOthers(DictSet(additional_info, others[1].key, others[1].val), Tail(others))

\* an update that also takes the keys of the metadata from activity_info
UpdatedTakingStatus(metadata, activity_info, now) ==
    [metadata EXCEPT
        !.last_activity = now,
        !.status = IF "status" \in DictKeys(activity_info.others)
                   THEN DictGet(activity_info.others, "status") ELSE @]

\* update_session_activity on a session of the index: its metadata after it
Updated(metadata, activity_info, now) ==
    IF activity_info = NoInfo
    THEN [metadata EXCEPT !.last_activity = now]
    ELSE [metadata EXCEPT
             !.last_activity = now,
             !.evaluation_count = IF activity_info.evaluation_count # -1
                                  THEN activity_info.evaluation_count ELSE @,
             !.additional_info = WithOthers(@, activity_info.others)]

\* complete_session on a session of the index: its metadata after it
Completed(metadata, summary_given, now) ==
    [metadata EXCEPT
        !.status = "completed",
        !.completed = now,
        !.has_summary = IF summary_given THEN TRUE ELSE @]

\* del self.sessions_index["sessions"][session_id]
DictDel(members, key) == SelectSeq(members, LAMBDA m : m.key # key)

\* a call: the method, the identifier given, the identifier or flag
\* returned, and the index as it was before the call
Call(op, requested, returned, before) ==
    [op |-> op, requested |-> requested, returned |-> returned, before |-> before]

SessionInit ==
    /\ sessions = <<>>
    /\ session_clock = 0
    /\ last_call = Call("", NoId, NoId, <<>>)
    /\ ConsensusIdle
    /\ ParserIdle
    /\ OrchestratorIdle
    /\ PipelineIdle
    /\ ConversationIdle

CreateSession(requested) ==
    /\ Len(sessions) < MaxSessions
    /\ sessions' = create_session(sessions, requested, session_clock).index
    /\ last_call' = Call("create_session", requested,
                         create_session(sessions, requested, session_clock).returned,
                         sessions)
    /\ UNCHANGED session_clock
    /\ UNCHANGED <<consensus_vars, parser_vars, orchestrator_vars, pipeline_vars,
                   conversation_vars>>

UpdateSessionActivity(session_id, activity_info) ==
    /\ sessions' = IF session_id \in DictKeys(sessions)
                   THEN DictSet(sessions, session_id,
                                Updated(DictGet(sessions, session_id), activity_info,
                                        session_clock))
                   ELSE sessions
    /\ last_call' = Call("update_session_activity", session_id, NoId, sessions)
    /\ UNCHANGED session_clock
    /\ UNCHANGED <<consensus_vars, parser_vars, orchestrator_vars, pipeline_vars,
                   conversation_vars>>

CompleteSession(session_id, summary_given) ==
    /\ sessions' = IF session_id \in DictKeys(sessions)
                   THEN DictSet(sessions, session_id,
                                Completed(DictGet(sessions, session_id), summary_given,
                                          session_clock))
                   ELSE sessions
    /\ last_call' = Call("complete_session", session_id, NoId, sessions)
    /\ UNCHANGED session_clock
    /\ UNCHANGED <<consensus_vars, parser_vars, orchestrator_vars, pipeline_vars,
                   conversation_vars>>

DeleteSession(session_id) ==
    /\ sessions' = IF session_id \in DictKeys(sessions)
                   THEN DictDel(sessions, session_id)
                   ELSE sessions
    /\ last_call' = Call("delete_session", session_id,
                         IF session_id \in DictKeys(sessions) THEN <<"True">> ELSE <<"False">>,
                         sessions)
    /\ UNCHANGED session_clock
    /\ UNCHANGED <<consensus_vars, parser_vars, orchestrator_vars, pipeline_vars,
                   conversation_vars>>

\* a second passes
SessionTick ==
    /\ session_clock < MaxSessionClock
    /\ session_clock' = session_clock + 1
    /\ UNCHANGED <<sessions, last_call>>
    /\ UNCHANGED <<consensus_vars, parser_vars, orchestrator_vars, pipeline_vars,
                   conversation_vars>>

GivenIds == DictKeys(sessions) \cup {MissingId}

SessionNext ==
    \/ \E requested \in RequestedIds \cup {NoId} : CreateSession(requested)
    \/ \E session_id \in GivenIds : \E activity_info \in ActivityInfos :
           UpdateSessionActivity(session_id, activity_info)
    \/ \E session_id \in GivenIds : \E summary_given \in BOOLEAN :
           CompleteSession(session_id, summary_given)
    \/ \E session_id \in GivenIds : DeleteSession(session_id)
    \/ SessionTick

SessionSpec == SessionInit /\ [][SessionNext]_vars

----------------------------------------------------------------------------
(* Properties of the sessions index *)

StatusOf(index, session_id) == DictGet(index, session_id).status

\* C29: every create_session call returns an identifier that was not in
\* the index when it was called, registers it with status active, and leaves
\* the metadata of every session already in the index as it was, also when
\* the identifier asked for is taken.
C29_CreateReturnsAFreshActiveSession ==
    last_call.op = "create_session" =>
        /\ last_call.returned \notin DictKeys(last_call.before)
        /\ DictKeys(sessions) = DictKeys(last_call.before) \cup {last_call.returned}
        /\ Len(sessions) = Len(last_call.before) + 1
        /\ DictGet(sessions, last_call.returned).session_id = last_call.returned
        /\ StatusOf(sessions, last_call.returned) = "active"
        /\ \A k \in DictKeys(last_call.before) :
               DictGet(sessions, k) = DictGet(last_call.before, k)

\* the identifier asked for was taken by a completed session: the new
\* session got the identifier with the counter 1
C29_Witness ==
    /\ last_call.op = "create_session"
    /\ last_call.requested = <<"nightly">>
    /\ <<"nightly">> \in DictKeys(last_call.before)
    /\ StatusOf(last_call.before, <<"nightly">>) = "completed"
    /\ last_call.returned = <<"nightly", "1">>
    /\ StatusOf(sessions, <<"nightly">>) = "completed"
    /\ StatusOf(sessions, <<"nightly", "1">>) = "active"

\* the sessions that were in the index before the last call and still are
Remaining == DictKeys(last_call.before) \cap DictKeys(sessions)

\* C30: a session in the index has status active or completed; it is active
\* from its creation, becomes completed only by complete_session on it, and
\* while it stays in the index no call makes a completed session active.
C30_StatusOnlyMovesToCompleted ==
    /\ \A k \in DictKeys(sessions) : StatusOf(sessions, k) \in {"active", "completed"}
    /\ \A k \in DictKeys(sessions) \ DictKeys(last_call.before) :
           StatusOf(sessions, k) = "active" /\ last_call.op = "create_session"
    /\ \A k \in Remaining :
           /\ StatusOf(last_call.before, k) = "completed" => StatusOf(sessions, k) = "completed"
           /\ StatusOf(sessions, k) # StatusOf(last_call.before, k) =>
                  (last_call.op = "complete_session" /\ last_call.requested = k)

\* a completed session was given an activity update that carries a status
\* key: it is still completed, and the key went to additional_info
C30_Witness ==
    /\ last_call.op = "update_session_activity"
    /\ last_call.requested \in Remaining
    /\ StatusOf(last_call.before, last_call.requested) = "completed"
    /\ "status" \notin DictKeys(DictGet(last_call.before, last_call.requested).additional_info)
    /\ "status" \in DictKeys(DictGet(sessions, last_call.requested).additional_info)
    /\ StatusOf(sessions, last_call.requested) = "completed"
====
